---------------------------- MODULE Spec2Model ----------------------------
(***************************************************************************)
(* Model of the Linear MCP adapter: the GraphQL dispatch path              *)
(* (linear/request.py: graphql), the coercion helpers (_str, _int, ...)    *)
(* and the tool call sites (the tools package) that drive them.             *)
(*                                                                         *)
(* Python values are tagged records [k |-> kind, v |-> payload]; the tag    *)
(* sorts before the payload, so values of different kinds compare unequal   *)
(* without their payloads ever being compared.                              *)
(***************************************************************************)
EXTENDS Integers, Sequences, FiniteSets, TLC

VARIABLES pc, invocation, httpRequest, asked, sent, httpReply, linearResult, outcome,
          globals

vars == <<pc, invocation, httpRequest, asked, sent, httpReply, linearResult, outcome,
          globals>>

-----------------------------------------------------------------------------
(* Decoded JSON values (linear/types.py: JSONPrimitive, JSONValue,         *)
(* JSONObject, JSONArray) as Python holds them after json decoding.         *)

JNull == [k |-> "null"]

JBool(b) == [k |-> "bool", v |-> b]

JInt(n) == [k |-> "int", v |-> n]

\* An integer beyond the machine range of the model: s * 10^p, s \in {1,-1}.
JBigInt(s, p) == [k |-> "bigint", v |-> [s |-> s, p |-> p]]

\* A finite real s * m * 10^e (m >= 0, no trailing zero digit in m).
JFloat(s, m, e) == [k |-> "real", v |-> [c |-> "fin", s |-> s, m |-> m, e |-> e]]

JInf(s) == [k |-> "real", v |-> [c |-> "inf", s |-> s, m |-> 0, e |-> 0]]

JNaN == [k |-> "real", v |-> [c |-> "nan", s |-> 1, m |-> 0, e |-> 0]]

JStr(s) == [k |-> "str", v |-> s]

\* A list: the sequence of its items.
JArray(items) == [k |-> "list", v |-> items]

\* A dict: its entries [key, val] in insertion order, keys distinct.
JObject(entries) == [k |-> "map", v |-> entries]

Entry(key, val) == [key |-> key, val |-> val]

\* isinstance(x, dict), isinstance(x, list), isinstance(x, str)
IsDict(x) == x.k = "map"

IsList(x) == x.k = "list"

IsText(x) == x.k = "str"

\* key in d
HasKey(d, key) == \E i \in 1..Len(d.v) : d.v[i].key = key

\* d.get(key, default)
Get(d, key, default) ==
    IF HasKey(d, key)
    THEN d.v[CHOOSE i \in 1..Len(d.v) : d.v[i].key = key].val
    ELSE default

\* Python truthiness: bool(x)
Truthy(x) ==
    CASE x.k = "null"   -> FALSE
      [] x.k = "bool"   -> x.v
      [] x.k = "int"    -> x.v # 0
      [] x.k = "bigint" -> TRUE
      [] x.k = "real"   -> ~(x.v.c = "fin" /\ x.v.m = 0)
      [] x.k = "str"    -> x.v # ""
      [] x.k = "list"   -> Len(x.v) > 0
      [] x.k = "map"    -> Len(x.v) > 0

-----------------------------------------------------------------------------
(* Python's builtin conversions str(), int(), float(), as the coercion      *)
(* helpers of linear/request.py call them.                                  *)

Ch(s, i) == SubSeq(s, i, i)

IsDigit(c) == c \in {"0", "1", "2", "3", "4", "5", "6", "7", "8", "9"}

DigitVal(c) ==
    CASE c = "0" -> 0 [] c = "1" -> 1 [] c = "2" -> 2 [] c = "3" -> 3
      [] c = "4" -> 4 [] c = "5" -> 5 [] c = "6" -> 6 [] c = "7" -> 7
      [] c = "8" -> 8 [] c = "9" -> 9

IsSpace(c) == c \in {" ", "\t", "\n", "\r"}

RECURSIVE Pow10(_)
Pow10(n) == IF n <= 0 THEN 1 ELSE 10 * Pow10(n - 1)

RECURSIVE Zeros(_)
Zeros(n) ==
    IF n <= 0 THEN ""
    ELSE LET h == Zeros(n \div 2)
         IN  h \o h \o (IF n % 2 = 1 THEN "0" ELSE "")

\* s.strip(): the text without leading and trailing whitespace.
RECURSIVE Strip(_)
Strip(s) ==
    IF s = "" THEN s
    ELSE IF IsSpace(Ch(s, 1)) THEN Strip(SubSeq(s, 2, Len(s)))
    ELSE IF IsSpace(Ch(s, Len(s))) THEN Strip(SubSeq(s, 1, Len(s) - 1))
    ELSE s

\* str.lower() on the letters the float grammar names.
LowerCh(c) ==
    CASE c = "I" -> "i" [] c = "N" -> "n" [] c = "F" -> "f" [] c = "A" -> "a"
      [] c = "T" -> "t" [] c = "Y" -> "y" [] c = "E" -> "e" [] OTHER -> c

RECURSIVE Lower(_)
Lower(s) == IF s = "" THEN s ELSE LowerCh(Ch(s, 1)) \o Lower(SubSeq(s, 2, Len(s)))

\* A run of digits from position i, single underscores allowed between
\* digits: [pos |-> first position after the run, n |-> value, cnt |-> digits].
RECURSIVE ScanDigits(_, _, _, _)
ScanDigits(s, i, n, cnt) ==
    IF i <= Len(s) /\ IsDigit(Ch(s, i))
    THEN ScanDigits(s, i + 1, 10 * n + DigitVal(Ch(s, i)), cnt + 1)
    ELSE IF i < Len(s) /\ cnt > 0 /\ Ch(s, i) = "_" /\ IsDigit(Ch(s, i + 1))
    THEN ScanDigits(s, i + 1, n, cnt)
    ELSE [pos |-> i, n |-> n, cnt |-> cnt]

\* [+-] at position i: [pos, s].
ScanSign(s, i) ==
    IF i <= Len(s) /\ Ch(s, i) = "-" THEN [pos |-> i + 1, s |-> -1]
    ELSE IF i <= Len(s) /\ Ch(s, i) = "+" THEN [pos |-> i + 1, s |-> 1]
    ELSE [pos |-> i, s |-> 1]

\* int(text): [ok, n]; ok is FALSE where Python raises ValueError.
ParseInt(text) ==
    LET s  == Strip(text)
        sg == ScanSign(s, 1)
        d  == ScanDigits(s, sg.pos, 0, 0)
    IN  IF d.cnt > 0 /\ d.pos = Len(s) + 1
        THEN [ok |-> TRUE, n |-> sg.s * d.n]
        ELSE [ok |-> FALSE, n |-> 0]

\* The finite real s * m * 10^e with the trailing zero digits of m moved to e.
RECURSIVE Normal(_, _, _)
Normal(s, m, e) ==
    IF m = 0 THEN JFloat(s, 0, 0)
    ELSE IF m % 10 = 0 THEN Normal(s, m \div 10, e + 1)
    ELSE JFloat(s, m, e)

\* Number of decimal digits of m > 0.
RECURSIVE NDigits(_)
NDigits(m) == IF m < 10 THEN 1 ELSE 1 + NDigits(m \div 10)

\* The double nearest to s * m * 10^e: beyond the double range it is an
\* infinity, below it a zero.
Rounded(s, m, e) ==
    LET x == Normal(s, m, e)
    IN  IF x.v.m = 0 THEN x
        ELSE IF NDigits(x.v.m) + x.v.e > 309 THEN JInf(s)
        ELSE IF NDigits(x.v.m) + x.v.e < -323 THEN JFloat(s, 0, 0)
        ELSE x

\* float(text): [ok, x]; ok is FALSE where Python raises ValueError.
ParseFloat(text) ==
    LET s    == Strip(text)
        sg   == ScanSign(s, 1)
        word == Lower(SubSeq(s, sg.pos, Len(s)))
        ip   == ScanDigits(s, sg.pos, 0, 0)
        dot  == ip.pos <= Len(s) /\ Ch(s, ip.pos) = "."
        fp   == IF dot THEN ScanDigits(s, ip.pos + 1, ip.n, 0)
                       ELSE [pos |-> ip.pos, n |-> ip.n, cnt |-> 0]
        hasE == fp.pos <= Len(s) /\ Ch(s, fp.pos) \in {"e", "E"}
        es   == ScanSign(s, fp.pos + 1)
        ed   == ScanDigits(s, es.pos, 0, 0)
        endp == IF hasE THEN ed.pos ELSE fp.pos
        ex   == IF hasE THEN es.s * ed.n ELSE 0
    IN  IF word \in {"inf", "infinity"} THEN [ok |-> TRUE, x |-> JInf(sg.s)]
        ELSE IF word = "nan" THEN [ok |-> TRUE, x |-> JNaN]
        ELSE IF /\ ip.cnt + fp.cnt > 0
                /\ (hasE => ed.cnt > 0)
                /\ endp = Len(s) + 1
        THEN [ok |-> TRUE, x |-> Rounded(sg.s, fp.n, ex - fp.cnt)]
        ELSE [ok |-> FALSE, x |-> JNull]

\* repr() of a finite real: fixed notation while the decimal point lies
\* within 16 digits, exponent notation otherwise.
FloatRepr(r) ==
    LET d     == ToString(r.m)
        n     == Len(d)
        decpt == n + r.e
        sign  == IF r.s < 0 THEN "-" ELSE ""
        ex    == decpt - 1
        exTxt == IF ex < 0
                 THEN "-" \o (IF -ex < 10 THEN "0" ELSE "") \o ToString(-ex)
                 ELSE "+" \o (IF ex < 10 THEN "0" ELSE "") \o ToString(ex)
    IN  IF r.m = 0 THEN sign \o "0.0"
        ELSE IF decpt > 16 \/ decpt < -3
        THEN sign \o Ch(d, 1)
                  \o (IF n > 1 THEN "." \o SubSeq(d, 2, n) ELSE "")
                  \o "e" \o exTxt
        ELSE IF r.e >= 0 THEN sign \o d \o Zeros(r.e) \o ".0"
        ELSE IF decpt > 0
        THEN sign \o SubSeq(d, 1, decpt) \o "." \o SubSeq(d, decpt + 1, n)
        ELSE sign \o "0." \o Zeros(-decpt) \o d

\* repr(x)
RECURSIVE PyRepr(_)
RECURSIVE ReprItems(_, _)
PyRepr(x) ==
    CASE x.k = "null"   -> "None"
      [] x.k = "bool"   -> IF x.v THEN "True" ELSE "False"
      [] x.k = "int"    -> ToString(x.v)
      [] x.k = "bigint" -> (IF x.v.s < 0 THEN "-" ELSE "") \o "1" \o Zeros(x.v.p)
      [] x.k = "real"   ->
            IF x.v.c = "nan" THEN "nan"
            ELSE IF x.v.c = "inf" THEN (IF x.v.s < 0 THEN "-inf" ELSE "inf")
            ELSE FloatRepr(x.v)
      [] x.k = "str"    -> "'" \o x.v \o "'"
      [] x.k = "list"   -> "[" \o ReprItems(x, 1) \o "]"
      [] x.k = "map"    -> "{" \o ReprItems(x, 1) \o "}"

\* The items of a list or dict from position i on, joined by ", ".
ReprItems(x, i) ==
    IF i > Len(x.v) THEN ""
    ELSE (IF i > 1 THEN ", " ELSE "")
         \o (IF x.k = "map"
             THEN "'" \o x.v[i].key \o "': " \o PyRepr(x.v[i].val)
             ELSE PyRepr(x.v[i]))
         \o ReprItems(x, i + 1)

\* str(x): a text is itself, anything else its repr.
PyStr(x) == IF x.k = "str" THEN x.v ELSE PyRepr(x)

\* int(x) for a finite real: truncation toward zero.  Results of ten or more
\* digits leave the exact integers of the model and keep their magnitude only.
Trunc(r) ==
    IF r.e >= 0 THEN r.s * r.m * Pow10(r.e)
    ELSE r.s * (r.m \div Pow10(-r.e))

\* A builtin's outcome: the value it returns, or the exception it raises.
Returns(x) == [exc |-> "none", val |-> x]

Raises(e) == [exc |-> e, val |-> JNull]

\* int(x)
PyInt(x) ==
    CASE x.k = "int"    -> Returns(x)
      [] x.k = "bigint" -> Returns(x)
      [] x.k = "bool"   -> Returns(JInt(IF x.v THEN 1 ELSE 0))
      [] x.k = "real"   ->
            IF x.v.c = "inf" THEN Raises("OverflowError")
            ELSE IF x.v.c = "nan" THEN Raises("ValueError")
            ELSE IF NDigits(x.v.m) + x.v.e > 9
            THEN Returns(JBigInt(x.v.s, NDigits(x.v.m) + x.v.e - 1))
            ELSE Returns(JInt(Trunc(x.v)))
      [] x.k = "str"    ->
            IF ParseInt(x.v).ok THEN Returns(JInt(ParseInt(x.v).n))
            ELSE Raises("ValueError")
      [] OTHER          -> Raises("TypeError")

\* float(x)
PyFloat(x) ==
    CASE x.k = "real"   -> Returns(x)
      [] x.k = "int"    -> Returns(Normal(IF x.v < 0 THEN -1 ELSE 1,
                                          IF x.v < 0 THEN -x.v ELSE x.v, 0))
      [] x.k = "bigint" ->
            IF x.v.p > 308 THEN Raises("OverflowError")
            ELSE Returns(JFloat(x.v.s, 1, x.v.p))
      [] x.k = "bool"   -> Returns(JFloat(1, IF x.v THEN 1 ELSE 0, 0))
      [] x.k = "str"    ->
            IF ParseFloat(x.v).ok THEN Returns(ParseFloat(x.v).x)
            ELSE Raises("ValueError")
      [] OTHER          -> Raises("TypeError")

-----------------------------------------------------------------------------
(* Coercion helpers (linear/request.py).  Each yields Returns(value) or     *)
(* Raises(exception): an exception the helper does not catch leaves it.     *)

\* _str(val, default)
_str(val, default) ==
    IF val # JNull THEN Returns(JStr(PyStr(val))) ELSE Returns(default)

\* The exceptions the try blocks of _int and _float catch.
Caught == {"TypeError", "ValueError"}

\* _int(val, default)
_int(val, default) ==
    IF val = JNull THEN Returns(default)
    ELSE IF PyInt(val).exc \in Caught THEN Returns(default)
    ELSE PyInt(val)

\* _float(val, default)
_float(val, default) ==
    IF val = JNull THEN Returns(default)
    ELSE IF PyFloat(val).exc \in Caught THEN Returns(default)
    ELSE PyFloat(val)

\* A variant of _opt_str that gives the empty text for None.
_opt_strBlank(val) ==
    IF val # JNull THEN Returns(JStr(PyStr(val))) ELSE Returns(JStr(""))

\* _opt_str(val)
_opt_str(val) ==
    IF val # JNull THEN Returns(JStr(PyStr(val))) ELSE Returns(JNull)

\* _bool(val, default)
_bool(val, default) ==
    IF val # JNull THEN Returns(JBool(Truthy(val))) ELSE Returns(default)

\* A variant of _nested_str that falls back to the empty text as _str does.
_nested_strOrEmpty(obj, key) ==
    IF IsDict(obj) THEN _str(Get(obj, key, JNull), JStr(""))
    ELSE Returns(JStr(""))

\* _nested_str(obj, key)
_nested_str(obj, key) ==
    IF IsDict(obj) THEN _opt_str(Get(obj, key, JNull)) ELSE Returns(JNull)

-----------------------------------------------------------------------------
(* GraphQL dispatch (linear/request.py: graphql).                          *)

\* LinearResult(success, data, error)
LinearResult(success, data, error) ==
    [success |-> success, data |-> data, error |-> error]

\* The transport collaborator's reply: success, response (None or a
\* response carrying the decoded body), error (None or an error object
\* carrying a message).
HttpResponse(body) == [k |-> "HttpResponse", body |-> body]

HttpError(message) == [k |-> "HttpError", message |-> message]

DispatchResponse(success, resp, error) ==
    [success |-> success, response |-> resp, error |-> error]

\* A variant of the request that always carries a variables entry.
graphqlRequestWithVariables(query, variables, signed_url_ttl) ==
    [method |-> "POST", path |-> "/graphql",
     body |-> JObject(<<Entry("query", query), Entry("variables", variables)>>),
     headers |-> IF signed_url_ttl # JNull
                 THEN JObject(<<Entry("public-file-urls-expire-in",
                                      JStr(PyStr(signed_url_ttl)))>>)
                 ELSE JNull]

\* graphql() up to its await: the request it hands to ctx.dispatch.
graphqlRequest(query, variables, signed_url_ttl) ==
    LET body ==
            IF Truthy(variables)
            THEN JObject(<<Entry("query", query), Entry("variables", variables)>>)
            ELSE JObject(<<Entry("query", query)>>)
        headers ==
            IF signed_url_ttl # JNull
            THEN JObject(<<Entry("public-file-urls-expire-in",
                                 JStr(PyStr(signed_url_ttl)))>>)
            ELSE JNull
    IN  [method |-> "POST", path |-> "/graphql", body |-> body, headers |-> headers]

\* A variant that takes the message of the last entry of the errors list.
graphqlErrorMessageOfLast(errors) ==
    IF IsDict(errors.v[Len(errors.v)])
    THEN Get(errors.v[Len(errors.v)], "message", JStr("GraphQL error"))
    ELSE JStr("GraphQL error")

\* A variant without the fixed fallback text.
graphqlErrorMessageNoFallback(errors) ==
    IF IsDict(errors.v[1])
    THEN Get(errors.v[1], "message", JNull)
    ELSE errors.v[1]

\* The message graphql() takes from a non-empty errors list.
graphqlErrorMessage(errors) ==
    IF IsDict(errors.v[1])
    THEN Get(errors.v[1], "message", JStr("GraphQL error"))
    ELSE JStr("GraphQL error")

\* A variant that classifies by the body whenever a response is present,
\* whatever the transport's success flag.
graphqlResultBodyFirst(resp) ==
    IF resp.response # JNull
    THEN LET resp_body == resp.response.body
         IN  IF IsDict(resp_body)
             THEN LET errors == Get(resp_body, "errors", JNull)
                  IN  IF Truthy(errors) /\ IsList(errors)
                      THEN LinearResult(FALSE, JNull,
                                        JStr(PyStr(graphqlErrorMessage(errors))))
                      ELSE LinearResult(TRUE, Get(resp_body, "data", JNull), JNull)
             ELSE LinearResult(TRUE, resp_body, JNull)
    ELSE LinearResult(FALSE, JNull,
                      IF resp.error # JNull THEN resp.error.message
                      ELSE JStr("Request failed"))

\* A variant that hands the whole mapping body on as data.
graphqlResultWholeBody(resp) ==
    IF resp.success /\ resp.response # JNull
    THEN LET resp_body == resp.response.body
         IN  IF IsDict(resp_body)
             THEN LET errors == Get(resp_body, "errors", JNull)
                  IN  IF Truthy(errors) /\ IsList(errors)
                      THEN LinearResult(FALSE, JNull,
                                        JStr(PyStr(graphqlErrorMessage(errors))))
                      ELSE LinearResult(TRUE, resp_body, JNull)
             ELSE LinearResult(TRUE, resp_body, JNull)
    ELSE LinearResult(FALSE, JNull,
                      IF resp.error # JNull THEN resp.error.message
                      ELSE JStr("Request failed"))

\* A variant that turns a body of an unexpected shape into a failure.
graphqlResultShapeChecked(resp) ==
    IF resp.success /\ resp.response # JNull
    THEN LET resp_body == resp.response.body
         IN  IF IsDict(resp_body)
             THEN LET errors == Get(resp_body, "errors", JNull)
                  IN  IF Truthy(errors) /\ IsList(errors)
                      THEN LinearResult(FALSE, JNull,
                                        JStr(PyStr(graphqlErrorMessage(errors))))
                      ELSE LinearResult(TRUE, Get(resp_body, "data", JNull), JNull)
             ELSE LinearResult(FALSE, JNull, JStr("Unexpected response"))
    ELSE LinearResult(FALSE, JNull,
                      IF resp.error # JNull THEN resp.error.message
                      ELSE JStr("Request failed"))

\* A variant that reads every truthy `errors` value as a failure, a single
\* error object or a text included.
graphqlResultAnyErrors(resp) ==
    IF resp.success /\ resp.response # JNull
    THEN LET resp_body == resp.response.body
         IN  IF IsDict(resp_body)
             THEN LET errors == Get(resp_body, "errors", JNull)
                  IN  IF Truthy(errors)
                      THEN LinearResult(FALSE, JNull,
                                IF IsList(errors)
                                THEN JStr(PyStr(graphqlErrorMessage(errors)))
                                ELSE JStr("GraphQL error"))
                      ELSE LinearResult(TRUE, Get(resp_body, "data", JNull), JNull)
             ELSE LinearResult(TRUE, resp_body, JNull)
    ELSE LinearResult(FALSE, JNull,
                      IF resp.error # JNull THEN resp.error.message
                      ELSE JStr("Request failed"))

\* graphql() from its await on: the LinearResult for the transport's reply.
graphqlResult(resp) ==
    IF resp.success /\ resp.response # JNull
    THEN LET resp_body == resp.response.body
         IN  IF IsDict(resp_body)
             THEN LET errors == Get(resp_body, "errors", JNull)
                  IN  IF Truthy(errors) /\ IsList(errors)
                      THEN LinearResult(FALSE, JNull,
                                        JStr(PyStr(graphqlErrorMessage(errors))))
                      ELSE LinearResult(TRUE, Get(resp_body, "data", JNull), JNull)
             ELSE LinearResult(TRUE, resp_body, JNull)
    ELSE LinearResult(FALSE, JNull,
                      IF resp.error # JNull THEN resp.error.message
                      ELSE JStr("Request failed"))

-----------------------------------------------------------------------------
(* Node parsers (the _parse_ functions of the tool modules).  A dataclass   *)
(* instance is [k |-> class name, v |-> fields].                            *)

Field(f, o) == [f |-> f, o |-> o]

\* The first exception among outcomes evaluated in order, "none" if none.
FirstExc(outs) ==
    IF \E i \in 1..Len(outs) : outs[i].exc # "none"
    THEN outs[CHOOSE i \in 1..Len(outs) :
                /\ outs[i].exc # "none"
                /\ \A j \in 1..(i - 1) : outs[j].exc = "none"].exc
    ELSE "none"

\* cls(f1=o1, f2=o2, ...): the arguments are evaluated in order, and the
\* first exception among them leaves the parser.
Construct(cls, fs) ==
    LET outs == [i \in 1..Len(fs) |-> fs[i].o]
    IN  IF FirstExc(outs) # "none" THEN Raises(FirstExc(outs))
        ELSE Returns([k |-> cls,
                      v |-> [n \in {fs[i].f : i \in 1..Len(fs)} |->
                                fs[CHOOSE i \in 1..Len(fs) : fs[i].f = n].o.val]])

\* The labels comprehension of the issue parsers:
\* [_str(node.get("name")) for node in nodes
\*  if isinstance(node, dict) and node.get("name")]
NamedNode(node) == IsDict(node) /\ Truthy(Get(node, "name", JNull))

\* A variant of LabelNames that keeps only the first occurrence of a name.
LabelNamesDistinct(raw) ==
    LET label_nodes == Get(raw, "labels", JObject(<<>>))
        nodes == IF IsDict(label_nodes)
                 THEN Get(label_nodes, "nodes", JArray(<<>>))
                 ELSE JNull
        sel   == IF IsList(nodes) THEN SelectSeq(nodes.v, NamedNode) ELSE <<>>
        names == [i \in 1..Len(sel) |->
                     _str(Get(sel[i], "name", JNull), JStr("")).val]
        first == {i \in 1..Len(names) : \A j \in 1..(i - 1) : names[j] # names[i]}
        Pick[i \in 0..Len(names)] ==
            IF i = 0 THEN <<>>
            ELSE IF i \in first THEN Append(Pick[i - 1], names[i]) ELSE Pick[i - 1]
    IN  JArray(Pick[Len(names)])

LabelNames(raw) ==
    LET label_nodes == Get(raw, "labels", JObject(<<>>))
        nodes == IF IsDict(label_nodes)
                 THEN Get(label_nodes, "nodes", JArray(<<>>))
                 ELSE JNull
        sel   == IF IsList(nodes) THEN SelectSeq(nodes.v, NamedNode) ELSE <<>>
    IN  JArray([i \in 1..Len(sel) |->
                   _str(Get(sel[i], "name", JNull), JStr("")).val])

\* tools/issues.py: _parse_issue
_parse_issue(raw) ==
    Construct("IssueInfo", <<
        Field("id", _str(Get(raw, "id", JNull), JStr(""))),
        Field("identifier", _str(Get(raw, "identifier", JNull), JStr(""))),
        Field("title", _str(Get(raw, "title", JNull), JStr(""))),
        Field("description", _opt_str(Get(raw, "description", JNull))),
        Field("state", _nested_str(Get(raw, "state", JNull), "name")),
        Field("priority", _int(Get(raw, "priority", JNull), JInt(0))),
        Field("assignee", _nested_str(Get(raw, "assignee", JNull), "name")),
        Field("labels", Returns(LabelNames(raw))),
        Field("created_at", _opt_str(Get(raw, "createdAt", JNull))),
        Field("updated_at", _opt_str(Get(raw, "updatedAt", JNull))) >>)

\* tools/compound.py: _parse_issue
compound_parse_issue(raw) ==
    Construct("IssueInfo", <<
        Field("id", _str(Get(raw, "id", JNull), JStr(""))),
        Field("identifier", _str(Get(raw, "identifier", JNull), JStr(""))),
        Field("title", _str(Get(raw, "title", JNull), JStr(""))),
        Field("description", _opt_str(Get(raw, "description", JNull))),
        Field("state", _nested_str(Get(raw, "state", JNull), "name")),
        Field("priority", _int(Get(raw, "priority", JNull), JInt(0))),
        Field("assignee", _nested_str(Get(raw, "assignee", JNull), "name")),
        Field("labels", Returns(LabelNames(raw))),
        Field("created_at", _opt_str(Get(raw, "createdAt", JNull))),
        Field("updated_at", _opt_str(Get(raw, "updatedAt", JNull))) >>)

\* tools/search.py: _parse_search_issue (description keeps its default None)
_parse_search_issue(raw) ==
    Construct("IssueInfo", <<
        Field("id", _str(Get(raw, "id", JNull), JStr(""))),
        Field("identifier", _str(Get(raw, "identifier", JNull), JStr(""))),
        Field("title", _str(Get(raw, "title", JNull), JStr(""))),
        Field("state", _nested_str(Get(raw, "state", JNull), "name")),
        Field("priority", _int(Get(raw, "priority", JNull), JInt(0))),
        Field("assignee", _nested_str(Get(raw, "assignee", JNull), "name")),
        Field("labels", Returns(LabelNames(raw))),
        Field("created_at", _opt_str(Get(raw, "createdAt", JNull))),
        Field("updated_at", _opt_str(Get(raw, "updatedAt", JNull))),
        Field("description", Returns(JNull)) >>)

\* tools/comments.py: _parse_comment
_parse_comment(raw) ==
    Construct("CommentInfo", <<
        Field("id", _str(Get(raw, "id", JNull), JStr(""))),
        Field("body", _str(Get(raw, "body", JNull), JStr(""))),
        Field("user", _nested_str(Get(raw, "user", JNull), "name")),
        Field("created_at", _opt_str(Get(raw, "createdAt", JNull))) >>)

\* tools/compound.py: _parse_comment
compound_parse_comment(raw) ==
    Construct("CommentInfo", <<
        Field("id", _str(Get(raw, "id", JNull), JStr(""))),
        Field("body", _str(Get(raw, "body", JNull), JStr(""))),
        Field("user", _nested_str(Get(raw, "user", JNull), "name")),
        Field("created_at", _opt_str(Get(raw, "createdAt", JNull))) >>)

\* tools/teams.py: _parse_team
_parse_team(raw) ==
    Construct("TeamInfo", <<
        Field("id", _str(Get(raw, "id", JNull), JStr(""))),
        Field("name", _str(Get(raw, "name", JNull), JStr(""))),
        Field("key", _str(Get(raw, "key", JNull), JStr(""))) >>)

\* tools/teams.py: _parse_state
_parse_state(raw) ==
    Construct("WorkflowStateInfo", <<
        Field("id", _str(Get(raw, "id", JNull), JStr(""))),
        Field("name", _str(Get(raw, "name", JNull), JStr(""))),
        Field("type", _str(Get(raw, "type", JNull), JStr(""))),
        Field("color", _opt_str(Get(raw, "color", JNull))),
        Field("position", _float(Get(raw, "position", JNull), JFloat(1, 0, 0))) >>)

\* tools/compound.py: _parse_state
compound_parse_state(raw) ==
    Construct("WorkflowStateInfo", <<
        Field("id", _str(Get(raw, "id", JNull), JStr(""))),
        Field("name", _str(Get(raw, "name", JNull), JStr(""))),
        Field("type", _str(Get(raw, "type", JNull), JStr(""))),
        Field("color", _opt_str(Get(raw, "color", JNull))),
        Field("position", _float(Get(raw, "position", JNull), JFloat(1, 0, 0))) >>)

\* tools/users.py: _parse_user
_parse_user(raw) ==
    Construct("UserInfo", <<
        Field("id", _str(Get(raw, "id", JNull), JStr(""))),
        Field("name", _str(Get(raw, "name", JNull), JStr(""))),
        Field("email", _opt_str(Get(raw, "email", JNull))) >>)

\* tools/labels.py: _parse_label
_parse_label(raw) ==
    Construct("LabelInfo", <<
        Field("id", _str(Get(raw, "id", JNull), JStr(""))),
        Field("name", _str(Get(raw, "name", JNull), JStr(""))),
        Field("color", _opt_str(Get(raw, "color", JNull))) >>)

\* tools/projects.py: _parse_project
_parse_project(raw) ==
    Construct("ProjectInfo", <<
        Field("id", _str(Get(raw, "id", JNull), JStr(""))),
        Field("name", _str(Get(raw, "name", JNull), JStr(""))),
        Field("state", _opt_str(Get(raw, "state", JNull))),
        Field("progress", _float(Get(raw, "progress", JNull), JFloat(1, 0, 0))),
        Field("target_date", _opt_str(Get(raw, "targetDate", JNull))) >>)

\* tools/cycles.py: _parse_cycle
_parse_cycle(raw) ==
    Construct("CycleInfo", <<
        Field("id", _str(Get(raw, "id", JNull), JStr(""))),
        Field("number", _int(Get(raw, "number", JNull), JInt(0))),
        Field("name", _opt_str(Get(raw, "name", JNull))),
        Field("starts_at", _opt_str(Get(raw, "startsAt", JNull))),
        Field("ends_at", _opt_str(Get(raw, "endsAt", JNull))),
        Field("progress", _float(Get(raw, "progress", JNull), JFloat(1, 0, 0))) >>)

\* tools/attachments.py: _parse_attachment
_parse_attachment(raw) ==
    Construct("AttachmentInfo", <<
        Field("id", _str(Get(raw, "id", JNull), JStr(""))),
        Field("url", _str(Get(raw, "url", JNull), JStr(""))),
        Field("title", _opt_str(Get(raw, "title", JNull))),
        Field("subtitle", _opt_str(Get(raw, "subtitle", JNull))) >>)

\* The entries a comprehension `for n in x if isinstance(n, dict)` keeps: the
\* dicts of a list; a text yields its characters and a dict its keys, none
\* of them a dict.
DictNodes(x) == IF IsList(x) THEN SelectSeq(x.v, IsDict) ELSE <<>>

\* [parse(n) for n in ...]: the list of the parsed entries, given the
\* outcomes of parsing each in order, or the first exception among them.
ParseNodes(outs) ==
    IF FirstExc(outs) # "none" THEN Raises(FirstExc(outs))
    ELSE Returns(JArray([i \in 1..Len(outs) |-> outs[i].val]))

-----------------------------------------------------------------------------
(* Tool call sites (the tools package).  A tool is a coroutine with one     *)
(* await: X_request is its code up to the await (the request it hands to    *)
(* graphql(), or the text it returns without calling it), X_result its      *)
(* code from the await on, given what graphql() returned.                   *)

\* A variant of OrText that falls back only when the error is None.
OrTextUnlessNone(error, text) == IF error # JNull THEN error ELSE JStr(text)

\* response.error or "text"
OrText(error, text) == IF Truthy(error) THEN error ELSE JStr(text)

\* A variant of Opt that stores the key whatever the value, None included.
OptAlways(key, val) == <<Entry(key, val)>>

\* if val is not None: input_data[key] = val
Opt(key, val) == IF val # JNull THEN <<Entry(key, val)>> ELSE <<>>

\* The tool reaches `await graphql(...)` with this request.
Dispatch(req) == [early |-> FALSE, req |-> req, text |-> JNull]

\* The tool returns a text before calling graphql().
EarlyReturn(text) == [early |-> TRUE, req |-> JNull, text |-> text]

\* tools/issues.py: linear_get_issue, up to its await
linear_get_issue_request(args) ==
    Dispatch(graphqlRequest(JStr("query GetIssue"), JObject(<<Entry("id", args.issue_id)>>), JNull))

\* A variant of linear_get_issue that reads data that is not a mapping as
\* the empty mapping.
linear_get_issue_resultLenient(args, response) ==
    IF ~response.success
    THEN Returns(OrText(response.error, "Failed to fetch issue"))
    ELSE
    LET data == IF IsDict(response.data) THEN response.data ELSE JObject(<<>>)
        issue_data == Get(data, "issue", JNull)
    IN  IF ~IsDict(issue_data)
        THEN Returns(JStr("Issue not found"))
        ELSE _parse_issue(issue_data)

\* tools/issues.py: linear_get_issue, from its await on
linear_get_issue_result(args, response) ==
    IF ~response.success
    THEN Returns(OrText(response.error, "Failed to fetch issue"))
    ELSE
    LET data == response.data IN
    IF ~IsDict(data)
    THEN Returns(JStr("Unexpected response"))
    ELSE
    LET issue_data == Get(data, "issue", JNull) IN
    IF ~IsDict(issue_data)
    THEN Returns(JStr("Issue not found"))
    ELSE
    _parse_issue(issue_data)

\* tools/issues.py: linear_list_issues, up to its await
linear_list_issues_request(args) ==
    LET variables == JObject(<<
            Entry("filter", args.filter),
            Entry("first", args.first),
            Entry("after", args.after),
            Entry("orderBy", args.order_by),
            Entry("includeArchived", args.include_archived)>>) IN
    Dispatch(graphqlRequest(JStr("query Issues"), variables, JNull))

\* tools/issues.py: linear_list_issues, from its await on
linear_list_issues_result(args, response) ==
    IF ~response.success
    THEN Returns(OrText(response.error, "Failed to list issues"))
    ELSE
    LET data == response.data IN
    IF ~IsDict(data)
    THEN Returns(JStr("Unexpected response"))
    ELSE
    LET issues_data == Get(data, "issues", JNull) IN
    IF ~IsDict(issues_data)
    THEN Returns(JStr("No issues data"))
    ELSE
    LET nodes == Get(issues_data, "nodes", JArray(<<>>)) IN
    IF ~IsList(nodes)
    THEN Returns(JStr("Unexpected nodes format"))
    ELSE
    ParseNodes([ix \in 1..Len(DictNodes(nodes)) |->
        _parse_issue(DictNodes(nodes)[ix])])

\* tools/issues.py: linear_create_issue, up to its await
linear_create_issue_request(args) ==
    LET input_data ==
            JObject(<<Entry("teamId", args.team_id), Entry("title", args.title)>>
                    \o Opt("description", args.description)
                    \o Opt("assigneeId", args.assignee_id)
                    \o Opt("stateId", args.state_id)
                    \o Opt("priority", args.priority)
                    \o Opt("labelIds", args.label_ids)
                    \o Opt("cycleId", args.cycle_id)
                    \o Opt("projectId", args.project_id)
                    \o Opt("estimate", args.estimate)
                    \o Opt("createAsUser", args.create_as_user)
                    \o Opt("displayIconUrl", args.display_icon_url))
    IN
    Dispatch(graphqlRequest(
            JStr("mutation IssueCreate"),
            JObject(<<Entry("input", input_data)>>),
            JNull))

\* tools/issues.py: linear_create_issue, from its await on
linear_create_issue_result(args, response) ==
    IF ~response.success
    THEN Returns(OrText(response.error, "Failed to create issue"))
    ELSE
    LET data == response.data IN
    IF ~IsDict(data)
    THEN Returns(JStr("Unexpected response"))
    ELSE
    LET payload == Get(data, "issueCreate", JNull) IN
    IF ~IsDict(payload) \/ ~Truthy(Get(payload, "success", JNull))
    THEN Returns(JStr("Issue creation failed"))
    ELSE
    LET issue_data == Get(payload, "issue", JNull) IN
    IF ~IsDict(issue_data)
    THEN Returns(JStr("No issue in response"))
    ELSE
    _parse_issue(issue_data)

\* tools/issues.py: linear_update_issue, up to its await
linear_update_issue_request(args) ==
    LET input_data ==
            JObject(Opt("title", args.title)
                    \o Opt("description", args.description)
                    \o Opt("stateId", args.state_id)
                    \o Opt("assigneeId", args.assignee_id)
                    \o Opt("priority", args.priority)
                    \o Opt("labelIds", args.label_ids)
                    \o Opt("cycleId", args.cycle_id)
                    \o Opt("projectId", args.project_id)
                    \o Opt("estimate", args.estimate))
    IN
    IF ~Truthy(input_data) THEN EarlyReturn(JStr("No fields to update"))
    ELSE Dispatch(graphqlRequest(
            JStr("mutation IssueUpdate"),
            JObject(<<Entry("id", args.issue_id), Entry("input", input_data)>>),
            JNull))

\* tools/issues.py: linear_update_issue, from its await on
linear_update_issue_result(args, response) ==
    IF ~response.success
    THEN Returns(OrText(response.error, "Failed to update issue"))
    ELSE
    LET data == response.data IN
    IF ~IsDict(data)
    THEN Returns(JStr("Unexpected response"))
    ELSE
    LET payload == Get(data, "issueUpdate", JNull) IN
    IF ~IsDict(payload) \/ ~Truthy(Get(payload, "success", JNull))
    THEN Returns(JStr("Issue update failed"))
    ELSE
    LET issue_data == Get(payload, "issue", JNull) IN
    IF ~IsDict(issue_data)
    THEN Returns(JStr("No issue in response"))
    ELSE
    _parse_issue(issue_data)

\* tools/comments.py: linear_list_comments, up to its await
linear_list_comments_request(args) ==
    LET variables == JObject(<<
            Entry("id", args.issue_id),
            Entry("first", args.first),
            Entry("after", args.after)>>) IN
    Dispatch(graphqlRequest(JStr("query IssueComments"), variables, JNull))

\* tools/comments.py: linear_list_comments, from its await on
linear_list_comments_result(args, response) ==
    IF ~response.success
    THEN Returns(OrText(response.error, "Failed to list comments"))
    ELSE
    LET data == response.data IN
    IF ~IsDict(data)
    THEN Returns(JStr("Unexpected response"))
    ELSE
    LET issue_data == Get(data, "issue", JNull) IN
    IF ~IsDict(issue_data)
    THEN Returns(JStr("Issue not found"))
    ELSE
    LET comments_data == Get(issue_data, "comments", JNull) IN
    IF ~IsDict(comments_data)
    THEN Returns(JStr("No comments data"))
    ELSE
    LET nodes == Get(comments_data, "nodes", JArray(<<>>)) IN
    IF ~IsList(nodes)
    THEN Returns(JStr("Unexpected nodes format"))
    ELSE
    ParseNodes([ix \in 1..Len(DictNodes(nodes)) |->
        _parse_comment(DictNodes(nodes)[ix])])

\* tools/comments.py: linear_create_comment, up to its await
linear_create_comment_request(args) ==
    LET input_data ==
            JObject(<<Entry("issueId", args.issue_id), Entry("body", args.body)>>
                    \o Opt("createAsUser", args.create_as_user)
                    \o Opt("displayIconUrl", args.display_icon_url))
    IN
    Dispatch(graphqlRequest(
            JStr("mutation CommentCreate"),
            JObject(<<Entry("input", input_data)>>),
            JNull))

\* tools/comments.py: linear_create_comment, from its await on
linear_create_comment_result(args, response) ==
    IF ~response.success
    THEN Returns(OrText(response.error, "Failed to create comment"))
    ELSE
    LET data == response.data IN
    IF ~IsDict(data)
    THEN Returns(JStr("Unexpected response"))
    ELSE
    LET payload == Get(data, "commentCreate", JNull) IN
    IF ~IsDict(payload) \/ ~Truthy(Get(payload, "success", JNull))
    THEN Returns(JStr("Comment creation failed"))
    ELSE
    LET comment_data == Get(payload, "comment", JNull) IN
    IF ~IsDict(comment_data)
    THEN Returns(JStr("No comment in response"))
    ELSE
    _parse_comment(comment_data)

\* tools/projects.py: linear_get_project, up to its await
linear_get_project_request(args) ==
    Dispatch(graphqlRequest(
            JStr("query Project"),
            JObject(<<Entry("id", args.project_id)>>),
            JNull))

\* tools/projects.py: linear_get_project, from its await on
linear_get_project_result(args, response) ==
    IF ~response.success
    THEN Returns(OrText(response.error, "Failed to fetch project"))
    ELSE
    LET data == response.data IN
    IF ~IsDict(data)
    THEN Returns(JStr("Unexpected response"))
    ELSE
    LET project_data == Get(data, "project", JNull) IN
    IF ~IsDict(project_data)
    THEN Returns(JStr("Project not found"))
    ELSE
    _parse_project(project_data)

\* tools/projects.py: linear_list_projects, up to its await
linear_list_projects_request(args) ==
    LET variables == JObject(<<
            Entry("filter", args.filter),
            Entry("first", args.first),
            Entry("after", args.after),
            Entry("includeArchived", args.include_archived)>>) IN
    Dispatch(graphqlRequest(JStr("query Projects"), variables, JNull))

\* tools/projects.py: linear_list_projects, from its await on
linear_list_projects_result(args, response) ==
    IF ~response.success
    THEN Returns(OrText(response.error, "Failed to list projects"))
    ELSE
    LET data == response.data IN
    IF ~IsDict(data)
    THEN Returns(JStr("Unexpected response"))
    ELSE
    LET projects_data == Get(data, "projects", JNull) IN
    IF ~IsDict(projects_data)
    THEN Returns(JStr("No projects data"))
    ELSE
    LET nodes == Get(projects_data, "nodes", JArray(<<>>)) IN
    IF ~IsList(nodes)
    THEN Returns(JStr("Unexpected nodes format"))
    ELSE
    ParseNodes([ix \in 1..Len(DictNodes(nodes)) |->
        _parse_project(DictNodes(nodes)[ix])])

\* tools/projects.py: linear_create_project, up to its await
linear_create_project_request(args) ==
    LET input_data ==
            JObject(<<Entry("name", args.name)>>
                    \o Opt("teamIds", args.team_ids)
                    \o Opt("description", args.description)
                    \o Opt("state", args.state)
                    \o Opt("targetDate", args.target_date))
    IN
    Dispatch(graphqlRequest(
            JStr("mutation ProjectCreate"),
            JObject(<<Entry("input", input_data)>>),
            JNull))

\* tools/projects.py: linear_create_project, from its await on
linear_create_project_result(args, response) ==
    IF ~response.success
    THEN Returns(OrText(response.error, "Failed to create project"))
    ELSE
    LET data == response.data IN
    IF ~IsDict(data)
    THEN Returns(JStr("Unexpected response"))
    ELSE
    LET payload == Get(data, "projectCreate", JNull) IN
    IF ~IsDict(payload) \/ ~Truthy(Get(payload, "success", JNull))
    THEN Returns(JStr("Project creation failed"))
    ELSE
    LET project_data == Get(payload, "project", JNull) IN
    IF ~IsDict(project_data)
    THEN Returns(JStr("No project in response"))
    ELSE
    _parse_project(project_data)

\* tools/projects.py: linear_update_project, up to its await
linear_update_project_request(args) ==
    LET input_data ==
            JObject(Opt("name", args.name)
                    \o Opt("description", args.description)
                    \o Opt("state", args.state)
                    \o Opt("targetDate", args.target_date))
    IN
    IF ~Truthy(input_data) THEN EarlyReturn(JStr("No fields to update"))
    ELSE Dispatch(graphqlRequest(
            JStr("mutation ProjectUpdate"),
            JObject(<<Entry("id", args.project_id), Entry("input", input_data)>>),
            JNull))

\* tools/projects.py: linear_update_project, from its await on
linear_update_project_result(args, response) ==
    IF ~response.success
    THEN Returns(OrText(response.error, "Failed to update project"))
    ELSE
    LET data == response.data IN
    IF ~IsDict(data)
    THEN Returns(JStr("Unexpected response"))
    ELSE
    LET payload == Get(data, "projectUpdate", JNull) IN
    IF ~IsDict(payload) \/ ~Truthy(Get(payload, "success", JNull))
    THEN Returns(JStr("Project update failed"))
    ELSE
    LET project_data == Get(payload, "project", JNull) IN
    IF ~IsDict(project_data)
    THEN Returns(JStr("No project in response"))
    ELSE
    _parse_project(project_data)

\* tools/cycles.py: linear_list_cycles, up to its await
linear_list_cycles_request(args) ==
    LET variables == JObject(<<
            Entry("id", args.team_id),
            Entry("first", args.first),
            Entry("after", args.after),
            Entry("includeArchived", args.include_archived)>>) IN
    Dispatch(graphqlRequest(JStr("query TeamCycles"), variables, JNull))

\* tools/cycles.py: linear_list_cycles, from its await on
linear_list_cycles_result(args, response) ==
    IF ~response.success
    THEN Returns(OrText(response.error, "Failed to list cycles"))
    ELSE
    LET data == response.data IN
    IF ~IsDict(data)
    THEN Returns(JStr("Unexpected response"))
    ELSE
    LET team_data == Get(data, "team", JNull) IN
    IF ~IsDict(team_data)
    THEN Returns(JStr("Team not found"))
    ELSE
    LET cycles_data == Get(team_data, "cycles", JNull) IN
    IF ~IsDict(cycles_data)
    THEN Returns(JStr("No cycles data"))
    ELSE
    LET nodes == Get(cycles_data, "nodes", JArray(<<>>)) IN
    IF ~IsList(nodes)
    THEN Returns(JStr("Unexpected nodes format"))
    ELSE
    ParseNodes([ix \in 1..Len(DictNodes(nodes)) |->
        _parse_cycle(DictNodes(nodes)[ix])])

\* tools/cycles.py: linear_get_cycle, up to its await
linear_get_cycle_request(args) ==
    Dispatch(graphqlRequest(JStr("query Cycle"), JObject(<<Entry("id", args.cycle_id)>>), JNull))

\* tools/cycles.py: linear_get_cycle, from its await on
linear_get_cycle_result(args, response) ==
    IF ~response.success
    THEN Returns(OrText(response.error, "Failed to fetch cycle"))
    ELSE
    LET data == response.data IN
    IF ~IsDict(data)
    THEN Returns(JStr("Unexpected response"))
    ELSE
    LET cycle_data == Get(data, "cycle", JNull) IN
    IF ~IsDict(cycle_data)
    THEN Returns(JStr("Cycle not found"))
    ELSE
    _parse_cycle(cycle_data)

\* tools/cycles.py: linear_active_cycle, up to its await
linear_active_cycle_request(args) ==
    Dispatch(graphqlRequest(
            JStr("query ActiveCycle"),
            JObject(<<Entry("id", args.team_id)>>),
            JNull))

\* tools/cycles.py: linear_active_cycle, from its await on
linear_active_cycle_result(args, response) ==
    IF ~response.success
    THEN Returns(OrText(response.error, "Failed to fetch active cycle"))
    ELSE
    LET data == response.data IN
    IF ~IsDict(data)
    THEN Returns(JStr("Unexpected response"))
    ELSE
    LET team_data == Get(data, "team", JNull) IN
    IF ~IsDict(team_data)
    THEN Returns(JStr("Team not found"))
    ELSE
    LET cycle_data == Get(team_data, "activeCycle", JNull) IN
    IF ~IsDict(cycle_data)
    THEN Returns(JStr("No active cycle"))
    ELSE
    _parse_cycle(cycle_data)

\* tools/teams.py: linear_list_teams, up to its await
linear_list_teams_request(args) ==
    Dispatch(graphqlRequest(
            JStr("query Teams"),
            JObject(<<Entry("first", args.first), Entry("after", args.after)>>),
            JNull))

\* tools/teams.py: linear_list_teams, from its await on
linear_list_teams_result(args, response) ==
    IF ~response.success
    THEN Returns(OrText(response.error, "Failed to list teams"))
    ELSE
    LET data == response.data IN
    IF ~IsDict(data)
    THEN Returns(JStr("Unexpected response"))
    ELSE
    LET teams_data == Get(data, "teams", JNull) IN
    IF ~IsDict(teams_data)
    THEN Returns(JStr("No teams data"))
    ELSE
    LET nodes == Get(teams_data, "nodes", JArray(<<>>)) IN
    IF ~IsList(nodes)
    THEN Returns(JStr("Unexpected nodes format"))
    ELSE
    ParseNodes([ix \in 1..Len(DictNodes(nodes)) |->
        _parse_team(DictNodes(nodes)[ix])])

\* tools/teams.py: linear_get_team, up to its await
linear_get_team_request(args) ==
    Dispatch(graphqlRequest(JStr("query Team"), JObject(<<Entry("id", args.team_id)>>), JNull))

\* tools/teams.py: linear_get_team, from its await on
linear_get_team_result(args, response) ==
    IF ~response.success
    THEN Returns(OrText(response.error, "Failed to fetch team"))
    ELSE
    LET data == response.data IN
    IF ~IsDict(data)
    THEN Returns(JStr("Unexpected response"))
    ELSE
    LET team_data == Get(data, "team", JNull) IN
    IF ~IsDict(team_data)
    THEN Returns(JStr("Team not found"))
    ELSE
    _parse_team(team_data)

\* tools/teams.py: linear_list_team_states, up to its await
linear_list_team_states_request(args) ==
    Dispatch(graphqlRequest(
            JStr("query TeamStates"),
            JObject(<<Entry("id", args.team_id)>>),
            JNull))

\* tools/teams.py: linear_list_team_states, from its await on
linear_list_team_states_result(args, response) ==
    IF ~response.success
    THEN Returns(OrText(response.error, "Failed to fetch team states"))
    ELSE
    LET data == response.data IN
    IF ~IsDict(data)
    THEN Returns(JStr("Unexpected response"))
    ELSE
    LET team_data == Get(data, "team", JNull) IN
    IF ~IsDict(team_data)
    THEN Returns(JStr("Team not found"))
    ELSE
    LET states_data == Get(team_data, "states", JNull) IN
    IF ~IsDict(states_data)
    THEN Returns(JStr("No states data"))
    ELSE
    LET nodes == Get(states_data, "nodes", JArray(<<>>)) IN
    IF ~IsList(nodes)
    THEN Returns(JStr("Unexpected nodes format"))
    ELSE
    ParseNodes([ix \in 1..Len(DictNodes(nodes)) |->
        _parse_state(DictNodes(nodes)[ix])])

\* tools/users.py: linear_whoami, up to its await
linear_whoami_request(args) ==
    Dispatch(graphqlRequest(JStr("query Viewer"), JNull, JNull))

\* tools/users.py: linear_whoami, from its await on
linear_whoami_result(args, response) ==
    IF ~response.success
    THEN Returns(OrText(response.error, "Failed to fetch viewer"))
    ELSE
    LET data == response.data IN
    IF ~IsDict(data)
    THEN Returns(JStr("Unexpected response"))
    ELSE
    LET viewer == Get(data, "viewer", JNull) IN
    IF ~IsDict(viewer)
    THEN Returns(JStr("Viewer not found"))
    ELSE
    _parse_user(viewer)

\* tools/users.py: linear_list_users, up to its await
linear_list_users_request(args) ==
    LET variables == JObject(<<
            Entry("first", args.first),
            Entry("after", args.after),
            Entry("includeArchived", args.include_archived)>>) IN
    Dispatch(graphqlRequest(JStr("query Users"), variables, JNull))

\* tools/users.py: linear_list_users, from its await on
linear_list_users_result(args, response) ==
    IF ~response.success
    THEN Returns(OrText(response.error, "Failed to list users"))
    ELSE
    LET data == response.data IN
    IF ~IsDict(data)
    THEN Returns(JStr("Unexpected response"))
    ELSE
    LET users_data == Get(data, "users", JNull) IN
    IF ~IsDict(users_data)
    THEN Returns(JStr("No users data"))
    ELSE
    LET nodes == Get(users_data, "nodes", JArray(<<>>)) IN
    IF ~IsList(nodes)
    THEN Returns(JStr("Unexpected nodes format"))
    ELSE
    ParseNodes([ix \in 1..Len(DictNodes(nodes)) |->
        _parse_user(DictNodes(nodes)[ix])])

\* tools/labels.py: linear_list_labels, up to its await (one of two branches)
linear_list_labels_request(args) ==
    IF Truthy(args.team_id)
    THEN LET variables == JObject(<<Entry("id", args.team_id), Entry("first", args.first), Entry("after", args.after)>>) IN
         Dispatch(graphqlRequest(JStr("query TeamLabels"), variables, JNull))
    ELSE LET variables == JObject(<<Entry("first", args.first), Entry("after", args.after)>>) IN
         Dispatch(graphqlRequest(JStr("query Labels"), variables, JNull))

\* The tail both branches of linear_list_labels share.
linear_list_labels_tail(labels_data) ==
    IF ~IsDict(labels_data)
    THEN Returns(JStr("No labels data"))
    ELSE
    LET nodes == Get(labels_data, "nodes", JArray(<<>>)) IN
    IF ~IsList(nodes)
    THEN Returns(JStr("Unexpected nodes format"))
    ELSE
    ParseNodes([ix \in 1..Len(DictNodes(nodes)) |->
        _parse_label(DictNodes(nodes)[ix])])

\* tools/labels.py: linear_list_labels, from its await on
linear_list_labels_result(args, response) ==
    IF Truthy(args.team_id)
    THEN IF ~response.success
         THEN Returns(OrText(response.error, "Failed to list labels"))
         ELSE
         LET data == response.data IN
         IF ~IsDict(data)
         THEN Returns(JStr("Unexpected response"))
         ELSE
         LET team_data == Get(data, "team", JNull) IN
         IF ~IsDict(team_data)
         THEN Returns(JStr("Team not found"))
         ELSE
         linear_list_labels_tail(Get(team_data, "labels", JNull))
    ELSE IF ~response.success
         THEN Returns(OrText(response.error, "Failed to list labels"))
         ELSE
         LET data == response.data IN
         IF ~IsDict(data)
         THEN Returns(JStr("Unexpected response"))
         ELSE
         linear_list_labels_tail(Get(data, "issueLabels", JNull))

\* tools/labels.py: linear_create_label, up to its await
linear_create_label_request(args) ==
    LET input_data ==
            JObject(<<Entry("name", args.name)>>
                    \o Opt("teamId", args.team_id)
                    \o Opt("color", args.color))
    IN
    Dispatch(graphqlRequest(
            JStr("mutation LabelCreate"),
            JObject(<<Entry("input", input_data)>>),
            JNull))

\* tools/labels.py: linear_create_label, from its await on
linear_create_label_result(args, response) ==
    IF ~response.success
    THEN Returns(OrText(response.error, "Failed to create label"))
    ELSE
    LET data == response.data IN
    IF ~IsDict(data)
    THEN Returns(JStr("Unexpected response"))
    ELSE
    LET payload == Get(data, "issueLabelCreate", JNull) IN
    IF ~IsDict(payload) \/ ~Truthy(Get(payload, "success", JNull))
    THEN Returns(JStr("Label creation failed"))
    ELSE
    LET label_data == Get(payload, "issueLabel", JNull) IN
    IF ~IsDict(label_data)
    THEN Returns(JStr("No label in response"))
    ELSE
    _parse_label(label_data)

\* tools/search.py: linear_search_issues, up to its await
linear_search_issues_request(args) ==
    LET variables == JObject(<<
            Entry("query", args.query),
            Entry("first", args.first),
            Entry("after", args.after),
            Entry("includeArchived", args.include_archived)>>) IN
    Dispatch(graphqlRequest(JStr("query SearchIssues"), variables, JNull))

\* tools/search.py: linear_search_issues, from its await on
linear_search_issues_result(args, response) ==
    IF ~response.success
    THEN Returns(OrText(response.error, "Failed to search issues"))
    ELSE
    LET data == response.data IN
    IF ~IsDict(data)
    THEN Returns(JStr("Unexpected response"))
    ELSE
    LET search_data == Get(data, "issueSearch", JNull) IN
    IF ~IsDict(search_data)
    THEN Returns(JStr("No search results"))
    ELSE
    LET nodes == Get(search_data, "nodes", JArray(<<>>)) IN
    IF ~IsList(nodes)
    THEN Returns(JStr("Unexpected nodes format"))
    ELSE
    ParseNodes([ix \in 1..Len(DictNodes(nodes)) |->
        _parse_search_issue(DictNodes(nodes)[ix])])

\* tools/attachments.py: linear_get_attachment, up to its await
linear_get_attachment_request(args) ==
    Dispatch(graphqlRequest(
            JStr("query Attachment"),
            JObject(<<Entry("id", args.attachment_id)>>),
            JNull))

\* tools/attachments.py: linear_get_attachment, from its await on
linear_get_attachment_result(args, response) ==
    IF ~response.success
    THEN Returns(OrText(response.error, "Failed to fetch attachment"))
    ELSE
    LET data == response.data IN
    IF ~IsDict(data)
    THEN Returns(JStr("Unexpected response"))
    ELSE
    LET attachment == Get(data, "attachment", JNull) IN
    IF ~IsDict(attachment)
    THEN Returns(JStr("Attachment not found"))
    ELSE
    _parse_attachment(attachment)

\* tools/attachments.py: linear_get_attachment_by_url, up to its await
linear_get_attachment_by_url_request(args) ==
    Dispatch(graphqlRequest(
            JStr("query AttachmentsByURL"),
            JObject(<<Entry("url", args.url)>>),
            JNull))

\* tools/attachments.py: linear_get_attachment_by_url, from its await on
linear_get_attachment_by_url_result(args, response) ==
    IF ~response.success
    THEN Returns(OrText(response.error, "Failed to fetch attachments"))
    ELSE
    LET data == response.data IN
    IF ~IsDict(data)
    THEN Returns(JStr("Unexpected response"))
    ELSE
    LET container == Get(data, "attachmentsForURL", JNull) IN
    IF ~IsDict(container)
    THEN Returns(JStr("No attachment data"))
    ELSE
    LET nodes == Get(container, "nodes", JArray(<<>>)) IN
    IF ~IsList(nodes)
    THEN Returns(JStr("Unexpected nodes format"))
    ELSE
    ParseNodes([ix \in 1..Len(DictNodes(nodes)) |->
        _parse_attachment(DictNodes(nodes)[ix])])

\* tools/attachments.py: linear_create_attachment, up to its await
linear_create_attachment_request(args) ==
    LET input_data ==
            JObject(<<Entry("issueId", args.issue_id), Entry("url", args.url)>>
                    \o Opt("title", args.title)
                    \o Opt("subtitle", args.subtitle)
                    \o Opt("iconUrl", args.icon_url)
                    \o Opt("metadata", args.metadata)
                    \o Opt("createAsUser", args.create_as_user)
                    \o Opt("displayIconUrl", args.display_icon_url))
    IN
    Dispatch(graphqlRequest(
            JStr("mutation AttachmentCreate"),
            JObject(<<Entry("input", input_data)>>),
            JNull))

\* tools/attachments.py: linear_create_attachment, from its await on
linear_create_attachment_result(args, response) ==
    IF ~response.success
    THEN Returns(OrText(response.error, "Failed to create attachment"))
    ELSE
    LET data == response.data IN
    IF ~IsDict(data)
    THEN Returns(JStr("Unexpected response"))
    ELSE
    LET payload == Get(data, "attachmentCreate", JNull) IN
    IF ~IsDict(payload) \/ ~Truthy(Get(payload, "success", JNull))
    THEN Returns(JStr("Attachment creation failed"))
    ELSE
    LET attachment == Get(payload, "attachment", JNull) IN
    IF ~IsDict(attachment)
    THEN Returns(JStr("No attachment in response"))
    ELSE
    _parse_attachment(attachment)

\* tools/attachments.py: linear_update_attachment, up to its await
linear_update_attachment_request(args) ==
    LET input_data ==
            JObject(Opt("title", args.title)
                    \o Opt("subtitle", args.subtitle)
                    \o Opt("metadata", args.metadata))
    IN
    Dispatch(graphqlRequest(
            JStr("mutation AttachmentUpdate"),
            JObject(<<Entry("id", args.attachment_id), Entry("input", input_data)>>),
            JNull))

\* tools/attachments.py: linear_update_attachment, from its await on
linear_update_attachment_result(args, response) ==
    IF ~response.success
    THEN Returns(OrText(response.error, "Failed to update attachment"))
    ELSE
    LET data == response.data IN
    IF ~IsDict(data)
    THEN Returns(JStr("Unexpected response"))
    ELSE
    LET payload == Get(data, "attachmentUpdate", JNull) IN
    IF ~IsDict(payload) \/ ~Truthy(Get(payload, "success", JNull))
    THEN Returns(JStr("Attachment update failed"))
    ELSE
    LET attachment == Get(payload, "attachment", JNull) IN
    IF ~IsDict(attachment)
    THEN Returns(JStr("No attachment in response"))
    ELSE
    _parse_attachment(attachment)

\* tools/compound.py: linear_issue_context, up to its await
linear_issue_context_request(args) ==
    Dispatch(graphqlRequest(
            JStr("query IssueContext"),
            JObject(<<Entry("id", args.issue_id)>>),
            JNull))

\* iter(x) succeeds: a comprehension over a value that was not checked to
\* be a list raises TypeError unless the value is iterable.
Iterable(x) == IsList(x) \/ IsText(x) \/ IsDict(x)

\* tools/compound.py: linear_issue_context, from its await on
linear_issue_context_result(args, response) ==
    IF ~response.success
    THEN Returns(OrText(response.error, "Failed to fetch issue context"))
    ELSE
    LET data == response.data IN
    IF ~IsDict(data)
    THEN Returns(JStr("Unexpected response"))
    ELSE
    LET issue_data == Get(data, "issue", JNull) IN
    IF ~IsDict(issue_data)
    THEN Returns(JStr("Issue not found"))
    ELSE
    LET issue == compound_parse_issue(issue_data)
        comments_data == Get(issue_data, "comments", JObject(<<>>))
        comment_nodes == IF IsDict(comments_data)
                         THEN Get(comments_data, "nodes", JArray(<<>>))
                         ELSE JArray(<<>>)
        comments == IF Iterable(comment_nodes)
                        THEN ParseNodes([ix \in 1..Len(DictNodes(comment_nodes)) |->
                                compound_parse_comment(DictNodes(comment_nodes)[ix])])
                        ELSE Raises("TypeError")
        team_data == Get(issue_data, "team", JObject(<<>>))
        states_data == IF IsDict(team_data)
                       THEN Get(team_data, "states", JObject(<<>>))
                       ELSE JObject(<<>>)
        state_nodes == IF IsDict(states_data)
                       THEN Get(states_data, "nodes", JArray(<<>>))
                       ELSE JArray(<<>>)
        states == IF Iterable(state_nodes)
                        THEN ParseNodes([ix \in 1..Len(DictNodes(state_nodes)) |->
                                compound_parse_state(DictNodes(state_nodes)[ix])])
                        ELSE Raises("TypeError")
    IN  Construct("IssueContextInfo",
                  <<Field("issue", issue), Field("comments", comments),
                    Field("states", states)>>)

\* tools/compound.py: linear_my_issues, up to its await
linear_my_issues_request(args) ==
    LET variables == JObject(<<
            Entry("first", args.first),
            Entry("after", args.after),
            Entry("includeArchived", args.include_archived)>>) IN
    Dispatch(graphqlRequest(JStr("query MyIssues"), variables, JNull))

\* tools/compound.py: linear_my_issues, from its await on
linear_my_issues_result(args, response) ==
    IF ~response.success
    THEN Returns(OrText(response.error, "Failed to fetch assigned issues"))
    ELSE
    LET data == response.data IN
    IF ~IsDict(data)
    THEN Returns(JStr("Unexpected response"))
    ELSE
    LET viewer == Get(data, "viewer", JNull) IN
    IF ~IsDict(viewer)
    THEN Returns(JStr("Viewer not found"))
    ELSE
    LET assigned == Get(viewer, "assignedIssues", JNull) IN
    IF ~IsDict(assigned)
    THEN Returns(JStr("No assigned issues data"))
    ELSE
    LET nodes == Get(assigned, "nodes", JArray(<<>>)) IN
    IF ~IsList(nodes)
    THEN Returns(JStr("Unexpected nodes format"))
    ELSE
    ParseNodes([ix \in 1..Len(DictNodes(nodes)) |->
        compound_parse_issue(DictNodes(nodes)[ix])])

-----------------------------------------------------------------------------
(* The registered tools (tools/__init__.py: linear_tools) and, beside them, *)
(* a direct caller of graphql().                                            *)

linear_tools ==
    {"linear_get_issue",
     "linear_list_issues",
     "linear_create_issue",
     "linear_update_issue",
     "linear_list_comments",
     "linear_create_comment",
     "linear_get_project",
     "linear_list_projects",
     "linear_create_project",
     "linear_update_project",
     "linear_list_cycles",
     "linear_get_cycle",
     "linear_active_cycle",
     "linear_list_teams",
     "linear_get_team",
     "linear_list_team_states",
     "linear_whoami",
     "linear_list_users",
     "linear_list_labels",
     "linear_create_label",
     "linear_search_issues",
     "linear_get_attachment",
     "linear_get_attachment_by_url",
     "linear_create_attachment",
     "linear_update_attachment",
     "linear_issue_context",
     "linear_my_issues"}

ToolRequest(tool, args) ==
    CASE tool = "linear_get_issue" -> linear_get_issue_request(args)
      [] tool = "linear_list_issues" -> linear_list_issues_request(args)
      [] tool = "linear_create_issue" -> linear_create_issue_request(args)
      [] tool = "linear_update_issue" -> linear_update_issue_request(args)
      [] tool = "linear_list_comments" -> linear_list_comments_request(args)
      [] tool = "linear_create_comment" -> linear_create_comment_request(args)
      [] tool = "linear_get_project" -> linear_get_project_request(args)
      [] tool = "linear_list_projects" -> linear_list_projects_request(args)
      [] tool = "linear_create_project" -> linear_create_project_request(args)
      [] tool = "linear_update_project" -> linear_update_project_request(args)
      [] tool = "linear_list_cycles" -> linear_list_cycles_request(args)
      [] tool = "linear_get_cycle" -> linear_get_cycle_request(args)
      [] tool = "linear_active_cycle" -> linear_active_cycle_request(args)
      [] tool = "linear_list_teams" -> linear_list_teams_request(args)
      [] tool = "linear_get_team" -> linear_get_team_request(args)
      [] tool = "linear_list_team_states" -> linear_list_team_states_request(args)
      [] tool = "linear_whoami" -> linear_whoami_request(args)
      [] tool = "linear_list_users" -> linear_list_users_request(args)
      [] tool = "linear_list_labels" -> linear_list_labels_request(args)
      [] tool = "linear_create_label" -> linear_create_label_request(args)
      [] tool = "linear_search_issues" -> linear_search_issues_request(args)
      [] tool = "linear_get_attachment" -> linear_get_attachment_request(args)
      [] tool = "linear_get_attachment_by_url" -> linear_get_attachment_by_url_request(args)
      [] tool = "linear_create_attachment" -> linear_create_attachment_request(args)
      [] tool = "linear_update_attachment" -> linear_update_attachment_request(args)
      [] tool = "linear_issue_context" -> linear_issue_context_request(args)
      [] tool = "linear_my_issues" -> linear_my_issues_request(args)
      [] tool = "graphql" ->
            Dispatch(graphqlRequest(args.query, args.variables, args.signed_url_ttl))

ToolResult(tool, args, response) ==
    CASE tool = "linear_get_issue" -> linear_get_issue_result(args, response)
      [] tool = "linear_list_issues" -> linear_list_issues_result(args, response)
      [] tool = "linear_create_issue" -> linear_create_issue_result(args, response)
      [] tool = "linear_update_issue" -> linear_update_issue_result(args, response)
      [] tool = "linear_list_comments" -> linear_list_comments_result(args, response)
      [] tool = "linear_create_comment" -> linear_create_comment_result(args, response)
      [] tool = "linear_get_project" -> linear_get_project_result(args, response)
      [] tool = "linear_list_projects" -> linear_list_projects_result(args, response)
      [] tool = "linear_create_project" -> linear_create_project_result(args, response)
      [] tool = "linear_update_project" -> linear_update_project_result(args, response)
      [] tool = "linear_list_cycles" -> linear_list_cycles_result(args, response)
      [] tool = "linear_get_cycle" -> linear_get_cycle_result(args, response)
      [] tool = "linear_active_cycle" -> linear_active_cycle_result(args, response)
      [] tool = "linear_list_teams" -> linear_list_teams_result(args, response)
      [] tool = "linear_get_team" -> linear_get_team_result(args, response)
      [] tool = "linear_list_team_states" -> linear_list_team_states_result(args, response)
      [] tool = "linear_whoami" -> linear_whoami_result(args, response)
      [] tool = "linear_list_users" -> linear_list_users_result(args, response)
      [] tool = "linear_list_labels" -> linear_list_labels_result(args, response)
      [] tool = "linear_create_label" -> linear_create_label_result(args, response)
      [] tool = "linear_search_issues" -> linear_search_issues_result(args, response)
      [] tool = "linear_get_attachment" -> linear_get_attachment_result(args, response)
      [] tool = "linear_get_attachment_by_url" -> linear_get_attachment_by_url_result(args, response)
      [] tool = "linear_create_attachment" -> linear_create_attachment_result(args, response)
      [] tool = "linear_update_attachment" -> linear_update_attachment_result(args, response)
      [] tool = "linear_issue_context" -> linear_issue_context_result(args, response)
      [] tool = "linear_my_issues" -> linear_my_issues_result(args, response)
      [] tool = "graphql" -> Returns(response)

-----------------------------------------------------------------------------
(* Arguments the callers pass.  An optional parameter left out keeps its    *)
(* default (None, or the default of the signature).                         *)

\* At most this many optional fields of a create or update call are given
\* at once (or all of them are).
MaxGiven == 1

Given(a, names) == {n \in names : a[n] # JNull}

Sparse(S, names) ==
    {a \in S : Cardinality(Given(a, names)) <= MaxGiven \/ Given(a, names) = names}

ToolArgs(tool) ==
    LET AnId == {JStr("ENG-1")}
        Cursors == {JNull, JStr("cur-1")}
        OptText == {JNull, JStr("x")}
        OptTitle == {JNull, JStr(""), JStr("T")}
        OptInt == {JNull, JInt(0), JInt(2)}
        OptIds == {JNull, JArray(<<>>), JArray(<<JStr("L1")>>)}
        OptMeta == {JNull, JObject(<<>>), JObject(<<Entry("k", JStr("v"))>>)}
        OptFilter == {JNull, JObject(<<Entry("priority", JObject(<<Entry("lte", JInt(2))>>))>>)}
        Flags == {JBool(FALSE), JBool(TRUE)}
    IN
    CASE tool = "linear_get_issue" -> [issue_id : AnId]
      [] tool = "linear_list_issues" ->
            [filter : OptFilter, first : {JInt(50)}, after : Cursors,
             order_by : {JStr("createdAt")}, include_archived : {JBool(FALSE)}]
      [] tool = "linear_create_issue" ->
            Sparse([team_id : {JStr("team-1")}, title : {JStr("T")},
                    description : OptText, assignee_id : OptText,
                    state_id : OptText, priority : OptInt, label_ids : OptIds,
                    cycle_id : OptText, project_id : OptText, estimate : OptInt,
                    create_as_user : OptText, display_icon_url : OptText],
                   {"description", "assignee_id", "state_id", "priority",
                    "label_ids", "cycle_id", "project_id", "estimate",
                    "create_as_user", "display_icon_url"})
      [] tool = "linear_update_issue" ->
            Sparse([issue_id : AnId, title : OptTitle, description : OptText,
                    state_id : OptText, assignee_id : OptText, priority : OptInt,
                    label_ids : OptIds, cycle_id : OptText, project_id : OptText,
                    estimate : OptInt],
                   {"title", "description", "state_id", "assignee_id", "priority",
                    "label_ids", "cycle_id", "project_id", "estimate"})
      [] tool = "linear_list_comments" ->
            [issue_id : AnId, first : {JInt(50)}, after : Cursors]
      [] tool = "linear_create_comment" ->
            [issue_id : AnId, body : {JStr("hello")},
             create_as_user : OptText, display_icon_url : OptText]
      [] tool = "linear_get_project" -> [project_id : AnId]
      [] tool = "linear_list_projects" ->
            [filter : OptFilter, first : {JInt(50)}, after : Cursors,
             include_archived : {JBool(FALSE)}]
      [] tool = "linear_create_project" ->
            Sparse([name : {JStr("P")}, team_ids : OptIds, description : OptText,
                    state : OptText, target_date : OptText],
                   {"team_ids", "description", "state", "target_date"})
      [] tool = "linear_update_project" ->
            Sparse([project_id : AnId, name : OptTitle, description : OptText,
                    state : OptText, target_date : OptText],
                   {"name", "description", "state", "target_date"})
      [] tool = "linear_list_cycles" ->
            [team_id : AnId, first : {JInt(25)}, after : Cursors,
             include_archived : Flags]
      [] tool = "linear_get_cycle" -> [cycle_id : AnId]
      [] tool = "linear_active_cycle" -> [team_id : AnId]
      [] tool = "linear_list_teams" -> [first : {JInt(50)}, after : Cursors]
      [] tool = "linear_get_team" -> [team_id : AnId]
      [] tool = "linear_list_team_states" -> [team_id : AnId]
      [] tool = "linear_whoami" -> {<<>>}
      [] tool = "linear_list_users" ->
            [first : {JInt(50)}, after : Cursors, include_archived : Flags]
      [] tool = "linear_list_labels" ->
            [team_id : {JNull, JStr(""), JStr("team-1")}, first : {JInt(50)},
             after : Cursors]
      [] tool = "linear_create_label" ->
            [name : {JStr("bug")}, team_id : OptText, color : OptText]
      [] tool = "linear_search_issues" ->
            [query : {JStr("crash")}, first : {JInt(25)}, after : Cursors,
             include_archived : {JBool(FALSE)}]
      [] tool = "linear_get_attachment" -> [attachment_id : AnId]
      [] tool = "linear_get_attachment_by_url" -> [url : {JStr("https://e.x/1")}]
      [] tool = "linear_create_attachment" ->
            Sparse([issue_id : AnId, url : {JStr("https://e.x/1")},
                    title : OptText, subtitle : OptText, icon_url : OptText,
                    metadata : OptMeta, create_as_user : OptText,
                    display_icon_url : OptText],
                   {"title", "subtitle", "icon_url", "metadata",
                    "create_as_user", "display_icon_url"})
      [] tool = "linear_update_attachment" ->
            [attachment_id : AnId, title : OptTitle, subtitle : OptText,
             metadata : OptMeta]
      [] tool = "linear_issue_context" -> [issue_id : AnId]
      [] tool = "linear_my_issues" ->
            [first : {JInt(50)}, after : Cursors, include_archived : {JBool(FALSE)}]
      [] tool = "graphql" ->
            [query : {JStr("query Q")},
             variables : {JNull, JObject(<<>>),
                          JObject(<<Entry("id", JStr("1"))>>),
                          JObject(<<Entry("after", JNull)>>)},
             signed_url_ttl : {JNull, JInt(0), JInt(3600)}]

-----------------------------------------------------------------------------
(* Replies of the transport collaborator.  The remote body is untrusted:    *)
(* any key may be absent, null or of an unexpected shape.                   *)

\* An errors list holds at most this many entries.
MaxErrors == 2

RECURSIVE SeqsUpTo(_, _)
SeqsUpTo(S, n) ==
    IF n <= 0 THEN {<<>>}
    ELSE SeqsUpTo(S, n - 1)
         \cup {Append(q, x) : q \in {r \in SeqsUpTo(S, n - 1) : Len(r) = n - 1}, x \in S}

\* Non-empty errors lists: a first entry followed by up to MaxErrors - 1 more.
ErrorLists ==
    LET ErrorItems ==
            {JObject(<<Entry("message", JStr("Entity not found"))>>),
             JObject(<<Entry("message", JStr("")), Entry("path", JStr("issue"))>>),
             JObject(<<Entry("message", JNull)>>),
             JObject(<<Entry("message", JInt(42))>>),
             JObject(<<Entry("message", JObject(<<Entry("code", JInt(1))>>))>>),
             JObject(<<Entry("code", JStr("FORBIDDEN"))>>),
             JObject(<<>>),
             JStr("plain text"),
             JNull,
             JInt(7),
             JArray(<<JStr("nested")>>)}
        MoreErrorItems == {JObject(<<Entry("message", JStr("second"))>>), JStr("more")}
    IN  {JArray(<<first>> \o more) :
            first \in ErrorItems, more \in SeqsUpTo(MoreErrorItems, MaxErrors - 1)}

\* Values of an `errors` key that are not a non-empty list.
OtherErrors ==
    {JNull, JArray(<<>>), JStr("boom"), JInt(1), JBool(TRUE),
     JObject(<<Entry("message", JStr("single"))>>)}

\* An optional entry: absent, or present with one of the values.
MaybeEntry(key, values) == {<<>>} \cup {<<Entry(key, x)>> : x \in values}

PageInfo(more) ==
    Entry("pageInfo", JObject(<<Entry("hasNextPage", JBool(more)),
                                Entry("endCursor", IF more THEN JStr("cur-2") ELSE JNull)>>))

\* An object with further entries appended.
With(obj, entries) == JObject(obj.v \o entries)

\* Sample nodes of each entity of the remote schema, well-formed and not.
Nodes(kind) ==
    CASE kind = "issue" ->
        {JObject(<<>>),
         JObject(<<Entry("id", JStr("1")), Entry("identifier", JStr("ENG-1")),
                   Entry("title", JStr("T")), Entry("priority", JInt(2)),
                   Entry("state", JObject(<<Entry("name", JStr("Done"))>>)),
                   Entry("assignee", JNull),
                   Entry("labels", JObject(<<Entry("nodes", JArray(<<>>))>>))>>),
         JObject(<<Entry("id", JStr("2")), Entry("identifier", JStr("ENG-2")),
                   Entry("title", JStr("U")), Entry("description", JStr("long text")),
                   Entry("priority", JStr("3.7")), Entry("state", JStr("Done")),
                   Entry("assignee", JObject(<<Entry("name", JNull)>>)),
                   Entry("labels", JObject(<<Entry("nodes", JArray(<<
                       JObject(<<Entry("name", JStr("b"))>>),
                       JObject(<<Entry("name", JStr("a"))>>),
                       JObject(<<Entry("notname", JStr("x"))>>),
                       JStr("junk"),
                       JObject(<<Entry("name", JStr(""))>>),
                       JObject(<<Entry("name", JStr("b"))>>)>>))>>)),
                   Entry("createdAt", JStr("2026-01-01T00:00:00Z"))>>),
         JObject(<<Entry("id", JInt(3)), Entry("title", JNull),
                   Entry("priority", JFloat(1, 37, -1)), Entry("labels", JNull),
                   Entry("assignee", JObject(<<Entry("name", JStr("Ann"))>>)),
                   Entry("state", JObject(<<Entry("name", JStr(""))>>))>>),
         JObject(<<Entry("id", JStr("4")), Entry("priority", JFloat(-1, 37, -1)),
                   Entry("labels", JObject(<<Entry("nodes", JNull)>>))>>),
         JObject(<<Entry("id", JStr("5")), Entry("priority", JInt(9))>>),
         JObject(<<Entry("id", JStr("6")), Entry("priority", JInf(1))>>),
         JObject(<<Entry("id", JStr("7")), Entry("priority", JBool(TRUE)),
                   Entry("labels", JArray(<<JObject(<<Entry("name", JStr("z"))>>)>>))>>),
         JObject(<<Entry("id", JStr("8")), Entry("priority", JStr("4"))>>)}
      [] kind = "comment" ->
        {JObject(<<>>),
         JObject(<<Entry("id", JStr("c1")), Entry("body", JStr("first")),
                   Entry("user", JObject(<<Entry("name", JStr("Ann"))>>)),
                   Entry("createdAt", JStr("2026-01-02T00:00:00Z"))>>),
         JObject(<<Entry("id", JStr("c2")), Entry("body", JNull),
                   Entry("user", JNull)>>),
         JObject(<<Entry("id", JInt(3)), Entry("user", JStr("Ann"))>>)}
      [] kind = "state" ->
        {JObject(<<>>),
         JObject(<<Entry("id", JStr("s1")), Entry("name", JStr("Todo")),
                   Entry("type", JStr("unstarted")), Entry("color", JStr("#fff")),
                   Entry("position", JFloat(1, 2, 0))>>),
         JObject(<<Entry("id", JStr("s2")), Entry("name", JStr("Backlog")),
                   Entry("type", JStr("backlog")), Entry("position", JInt(1))>>),
         JObject(<<Entry("id", JStr("s3")), Entry("name", JStr("Done")),
                   Entry("type", JStr("completed")), Entry("position", JStr("0.5"))>>),
         JObject(<<Entry("id", JStr("s4")), Entry("position", JBigInt(1, 400))>>),
         JObject(<<Entry("id", JStr("s5")), Entry("position", JStr("high"))>>)}
      [] kind = "team" ->
        {JObject(<<>>),
         JObject(<<Entry("id", JStr("t1")), Entry("name", JStr("Eng")),
                   Entry("key", JStr("ENG"))>>),
         JObject(<<Entry("id", JNull), Entry("name", JInt(5)),
                   Entry("key", JArray(<<>>))>>)}
      [] kind = "user" ->
        {JObject(<<>>),
         JObject(<<Entry("id", JStr("u1")), Entry("name", JStr("Ann")),
                   Entry("email", JStr("ann@e.x"))>>),
         JObject(<<Entry("id", JStr("u2")), Entry("name", JNull),
                   Entry("email", JNull)>>)}
      [] kind = "label" ->
        {JObject(<<>>),
         JObject(<<Entry("id", JStr("l1")), Entry("name", JStr("bug")),
                   Entry("color", JStr("#ff0000"))>>),
         JObject(<<Entry("id", JStr("l2")), Entry("name", JBool(FALSE))>>)}
      [] kind = "project" ->
        {JObject(<<>>),
         JObject(<<Entry("id", JStr("p1")), Entry("name", JStr("Q1")),
                   Entry("state", JStr("started")), Entry("progress", JFloat(1, 25, -2)),
                   Entry("targetDate", JStr("2026-03-31"))>>),
         JObject(<<Entry("id", JStr("p2")), Entry("progress", JStr("1e999"))>>),
         JObject(<<Entry("id", JStr("p3")), Entry("progress", JBigInt(1, 400))>>),
         JObject(<<Entry("id", JStr("p4")), Entry("progress", JObject(<<>>))>>)}
      [] kind = "cycle" ->
        {JObject(<<>>),
         JObject(<<Entry("id", JStr("y1")), Entry("number", JInt(12)),
                   Entry("name", JStr("Sprint 12")),
                   Entry("startsAt", JStr("2026-01-05")), Entry("endsAt", JStr("2026-01-19")),
                   Entry("progress", JFloat(1, 5, -1))>>),
         JObject(<<Entry("id", JStr("y2")), Entry("number", JStr("twelve")),
                   Entry("progress", JNaN)>>),
         JObject(<<Entry("id", JStr("y3")), Entry("number", JInf(-1))>>),
         JObject(<<Entry("id", JStr("y4")), Entry("number", JNaN),
                   Entry("progress", JBool(TRUE))>>)}
      [] kind = "attachment" ->
        {JObject(<<>>),
         JObject(<<Entry("id", JStr("a1")), Entry("url", JStr("https://e.x/1")),
                   Entry("title", JStr("Design")), Entry("subtitle", JNull)>>),
         JObject(<<Entry("id", JStr("a2")), Entry("url", JNull),
                   Entry("title", JInt(0))>>)}

\* Issue nodes of linear_issue_context: an issue with its comments and team
\* branches varied.
ContextNodes ==
    LET CommentBranches ==
            MaybeEntry("comments",
                {JNull, JStr("none"), JInt(0), JObject(<<>>),
                 JObject(<<Entry("nodes", JNull)>>),
                 JObject(<<Entry("nodes", JInt(5))>>),
                 JObject(<<Entry("nodes", JStr("abc"))>>),
                 JObject(<<Entry("nodes", JObject(<<Entry("id", JStr("c1"))>>))>>),
                 JObject(<<Entry("nodes", JArray(<<>>))>>)}
                \cup {JObject(<<Entry("nodes", JArray(<<c, JStr("junk")>>))>>) : c \in Nodes("comment")})
        TeamBranches ==
            MaybeEntry("team",
                {JNull, JStr("none"), JObject(<<>>),
                 JObject(<<Entry("states", JNull)>>),
                 JObject(<<Entry("states", JArray(<<>>))>>),
                 JObject(<<Entry("states", JObject(<<>>))>>),
                 JObject(<<Entry("states", JObject(<<Entry("nodes", JNull)>>))>>),
                 JObject(<<Entry("states", JObject(<<Entry("nodes", JFloat(1, 15, -1))>>))>>),
                 JObject(<<Entry("states", JObject(<<Entry("nodes", JStr("abc"))>>))>>)}
                \cup {JObject(<<Entry("states", JObject(<<Entry("nodes", JArray(<<x>>))>>))>>) :
                        x \in Nodes("state")})
    IN
    {With(n, c) : n \in Nodes("issue"), c \in CommentBranches}
    \cup {With(n, c \o t) :
            n \in {m \in Nodes("issue") : Len(m.v) \in {0, 7}},
            c \in MaybeEntry("comments",
                    {JObject(<<Entry("nodes", JArray(<<x>>))>>) : x \in Nodes("comment")}),
            t \in TeamBranches}

\* A list of a reply's nodes holds at most this many well-formed entries.
MaxNodes == 2

\* Where each tool reads its payload in `data`: the keys leading to it, the
\* entity its nodes hold, and whether the payload is one entity, a container
\* of nodes, a mutation payload (success flag and entity under `leaf`) or
\* the issue node of linear_issue_context.
Shape(tool, args) ==
    LET One(path, kind) == [form |-> "entity", path |-> path, leaf |-> "", kind |-> kind]
        Many(path, kind) == [form |-> "list", path |-> path, leaf |-> "", kind |-> kind]
        Mut(key, leaf, kind) == [form |-> "mutation", path |-> <<key>>, leaf |-> leaf, kind |-> kind]
    IN
    CASE tool = "linear_get_issue" -> One(<<"issue">>, "issue")
      [] tool = "linear_list_issues" -> Many(<<"issues">>, "issue")
      [] tool = "linear_create_issue" -> Mut("issueCreate", "issue", "issue")
      [] tool = "linear_update_issue" -> Mut("issueUpdate", "issue", "issue")
      [] tool = "linear_list_comments" -> Many(<<"issue", "comments">>, "comment")
      [] tool = "linear_create_comment" -> Mut("commentCreate", "comment", "comment")
      [] tool = "linear_get_project" -> One(<<"project">>, "project")
      [] tool = "linear_list_projects" -> Many(<<"projects">>, "project")
      [] tool = "linear_create_project" -> Mut("projectCreate", "project", "project")
      [] tool = "linear_update_project" -> Mut("projectUpdate", "project", "project")
      [] tool = "linear_list_cycles" -> Many(<<"team", "cycles">>, "cycle")
      [] tool = "linear_get_cycle" -> One(<<"cycle">>, "cycle")
      [] tool = "linear_active_cycle" -> One(<<"team", "activeCycle">>, "cycle")
      [] tool = "linear_list_teams" -> Many(<<"teams">>, "team")
      [] tool = "linear_get_team" -> One(<<"team">>, "team")
      [] tool = "linear_list_team_states" -> Many(<<"team", "states">>, "state")
      [] tool = "linear_whoami" -> One(<<"viewer">>, "user")
      [] tool = "linear_list_users" -> Many(<<"users">>, "user")
      [] tool = "linear_list_labels" ->
            IF Truthy(args.team_id) THEN Many(<<"team", "labels">>, "label")
            ELSE Many(<<"issueLabels">>, "label")
      [] tool = "linear_create_label" -> Mut("issueLabelCreate", "issueLabel", "label")
      [] tool = "linear_search_issues" -> Many(<<"issueSearch">>, "issue")
      [] tool = "linear_get_attachment" -> One(<<"attachment">>, "attachment")
      [] tool = "linear_get_attachment_by_url" -> Many(<<"attachmentsForURL">>, "attachment")
      [] tool = "linear_create_attachment" -> Mut("attachmentCreate", "attachment", "attachment")
      [] tool = "linear_update_attachment" -> Mut("attachmentUpdate", "attachment", "attachment")
      [] tool = "linear_issue_context" ->
            [form |-> "context", path |-> <<"issue">>, leaf |-> "", kind |-> "issue"]
      [] tool = "linear_my_issues" -> Many(<<"viewer", "assignedIssues">>, "issue")
      [] tool = "graphql" -> One(<<"viewer">>, "user")

\* The mapping that holds x under the keys of path (one or two keys).
Wrap(path, x) ==
    IF Len(path) = 1 THEN JObject(<<Entry(path[1], x)>>)
    ELSE JObject(<<Entry(path[1], JObject(<<Entry(path[2], x)>>))>>)

\* The nodes of an entity that carry a text id and at least three fields.
GoodNodes(kind) ==
    {n \in Nodes(kind) : Len(n.v) >= 3 /\ IsText(Get(n, "id", JNull))}

\* One of the good nodes with the most fields.
GoodNode(kind) ==
    CHOOSE n \in GoodNodes(kind) : \A m \in GoodNodes(kind) : Len(m.v) <= Len(n.v)

\* The payloads found at the end of a tool's path, by the form of its shape.
Leaves(sh) ==
    LET junk == {JNull, JStr("x"), JArray(<<>>)}
        good == GoodNode(sh.kind)
    IN
    CASE sh.form = "entity" -> junk \cup Nodes(sh.kind)
      [] sh.form = "context" -> junk \cup ContextNodes
      [] sh.form = "list" ->
            junk
            \cup {JObject(<<>>), JObject(<<PageInfo(TRUE)>>)}
            \cup {JObject(<<Entry("nodes", x)>>) :
                    x \in {JNull, JInt(5), JStr("abc"), JObject(<<>>)}}
            \cup {JObject(<<Entry("nodes", JArray(<<n>>))>>) : n \in Nodes(sh.kind)}
            \cup {JObject(<<Entry("nodes", JArray(q))>>) :
                    q \in SeqsUpTo(GoodNodes(sh.kind), MaxNodes)}
            \cup {JObject(<<Entry("nodes", JArray(<<JStr("junk"), good, JNull, good>>)),
                            PageInfo(b)>>) : b \in BOOLEAN}
      [] sh.form = "mutation" ->
            junk
            \cup {JObject(<<>>),
                  JObject(<<Entry("success", JBool(FALSE))>>),
                  JObject(<<Entry("success", JBool(FALSE)), Entry(sh.leaf, good)>>),
                  JObject(<<Entry("success", JNull), Entry(sh.leaf, good)>>),
                  JObject(<<Entry(sh.leaf, good)>>),
                  JObject(<<Entry("success", JStr("yes")), Entry(sh.leaf, good)>>),
                  JObject(<<Entry("success", JBool(TRUE))>>)}
            \cup {JObject(<<Entry("success", JBool(TRUE)), Entry(sh.leaf, x)>>) :
                    x \in junk \cup Nodes(sh.kind)}

\* Values of the `data` key of a reply to the tool's request.
DataValues(tool, args) ==
    LET sh == Shape(tool, args)
    IN  {JObject(<<>>), JObject(<<Entry("unrelated", JInt(1))>>)}
        \cup (IF Len(sh.path) = 2
              THEN {Wrap(<<sh.path[1]>>, x) :
                        x \in {JNull, JStr("x"), JArray(<<>>), JObject(<<>>)}}
              ELSE {})
        \cup {Wrap(sh.path, x) : x \in Leaves(sh)}

\* A well-formed `data` for the tool's request.
GoodData(tool, args) ==
    LET sh == Shape(tool, args)
        good == GoodNode(sh.kind)
    IN  CASE sh.form \in {"entity", "context"} -> Wrap(sh.path, good)
          [] sh.form = "list" ->
                Wrap(sh.path, JObject(<<Entry("nodes", JArray(<<good>>)), PageInfo(FALSE)>>))
          [] sh.form = "mutation" ->
                Wrap(sh.path, JObject(<<Entry("success", JBool(TRUE)), Entry(sh.leaf, good)>>))

\* Decoded bodies of a response to the tool's request.
Bodies(tool, args) ==
    LET good == GoodData(tool, args)
        ext  == Entry("extensions", JObject(<<Entry("cost", JInt(1))>>))
    IN  {JNull, JBool(FALSE), JInt(0), JFloat(1, 15, -1), JStr("Bad Gateway"), JStr(""),
         JArray(<<>>), JArray(<<JObject(<<Entry("data", good)>>)>>)}
        \cup {JObject(<<>>), JObject(<<ext>>), JObject(<<Entry("data", good), ext>>)}
        \cup {JObject(<<Entry("data", d)>>) :
                d \in {JNull, JStr("x"), JArray(<<>>), JInt(1)} \cup DataValues(tool, args)}
        \cup {JObject(d \o <<Entry("errors", e)>>) :
                d \in {<<>>, <<Entry("data", good)>>}, e \in ErrorLists}
        \cup {JObject(<<Entry("errors", e)>> \o d) :
                d \in {<<>>, <<Entry("data", JNull)>>, <<Entry("data", good)>>},
                e \in OtherErrors}

\* Replies ctx.dispatch can give to the tool's request.
Replies(tool, args) ==
    LET errs == {JNull, HttpError(JStr("connection timed out")), HttpError(JStr(""))}
        held == {HttpResponse(JObject(<<Entry("data", GoodData(tool, args))>>)),
                 HttpResponse(JObject(<<Entry("errors", JArray(<<
                     JObject(<<Entry("message", JStr("Entity not found"))>>)>>))>>)),
                 HttpResponse(JStr("Bad Gateway"))}
    IN  {DispatchResponse(FALSE, JNull, e) : e \in errs}
        \cup {DispatchResponse(FALSE, r, e) : r \in held, e \in errs}
        \cup {DispatchResponse(TRUE, JNull, e) : e \in errs}
        \cup {DispatchResponse(TRUE, HttpResponse(b), JNull) : b \in Bodies(tool, args)}

-----------------------------------------------------------------------------
(* Direct applications of the coercion helpers to decoded JSON values.      *)

Helpers == {"_str", "_int", "_float", "_opt_str", "_bool", "_nested_str"}

\* Decoded JSON values of every kind, as json decoding yields them.
JsonValues ==
    {JNull, JBool(TRUE), JBool(FALSE),
     JInt(0), JInt(3), JInt(-3), JBigInt(1, 400), JBigInt(-1, 20),
     JFloat(1, 0, 0), JFloat(1, 37, -1), JFloat(-1, 37, -1), JFloat(1, 1, 22),
     JInf(1), JInf(-1), JNaN,
     JStr(""), JStr("3"), JStr(" 42 "), JStr("3.7"), JStr("-3.7"), JStr("abc"),
     JStr("1e999"), JStr("inf"), JStr("nan"),
     JArray(<<>>), JArray(<<JInt(1)>>),
     JObject(<<>>), JObject(<<Entry("name", JStr("Ann"))>>),
     JObject(<<Entry("name", JNull)>>), JObject(<<Entry("name", JInt(5))>>)}

\* The defaults a call of the helper may supply (None where it takes none).
HelperDefaults(helper) ==
    CASE helper = "_str"   -> {JStr(""), JStr("n/a")}
      [] helper = "_int"   -> {JInt(0), JInt(7)}
      [] helper = "_float" -> {JFloat(1, 0, 0), JFloat(1, 5, -1)}
      [] helper = "_bool"  -> {JBool(FALSE), JBool(TRUE)}
      [] OTHER             -> {JNull}

HelperArgs(helper) == [val : JsonValues, default : HelperDefaults(helper)]

\* helper(val, default), or helper(val) / helper(val, "name") for the two
\* helpers that take no default.
Coerced(helper, args) ==
    CASE helper = "_str"        -> _str(args.val, args.default)
      [] helper = "_int"        -> _int(args.val, args.default)
      [] helper = "_float"      -> _float(args.val, args.default)
      [] helper = "_opt_str"    -> _opt_str(args.val)
      [] helper = "_bool"       -> _bool(args.val, args.default)
      [] helper = "_nested_str" -> _nested_str(args.val, "name")

-----------------------------------------------------------------------------
(* The state machine.  The server runs each call as a coroutine that is     *)
(* suspended only at the await of ctx.dispatch inside graphql().  Calls are *)
(* taken one at a time here: a new call starts once no other is under way.  *)

\* Coroutines the server has room for.
NumSlots == 2

Slots == 1..NumSlots

\* A direct caller of graphql(), beside the registered tools.
Callers == linear_tools \cup {"graphql"}

None == JNull

Idle == \A j \in Slots : pc[j] = "idle"

\* The module-level values the calls share: the connection descriptor
\* (linear/config.py), the names of the query fragments of the tool
\* modules, and the tool list.
ModuleGlobals ==
    [linear    |-> [name |-> "linear-mcp", token |-> "LINEAR_ACCESS_TOKEN",
                    base_url |-> "https://api.linear.app",
                    auth_header_format |-> "Bearer {api_key}"],
     fragments |-> {"_ISSUE_FIELDS", "_PROJECT_FIELDS", "_CYCLE_FIELDS",
                    "_ATTACHMENT_FIELDS"},
     linear_tools |-> linear_tools]

Init ==
    /\ pc = [i \in Slots |-> "idle"]
    /\ invocation = [i \in Slots |-> None]
    /\ httpRequest = [i \in Slots |-> None]
    /\ asked = [i \in Slots |-> 0]
    /\ sent = [i \in Slots |-> 0]
    /\ httpReply = [i \in Slots |-> None]
    /\ linearResult = [i \in Slots |-> None]
    /\ outcome = [i \in Slots |-> None]
    /\ globals = ModuleGlobals

\* A call runs from its entry to the await inside graphql(), where the
\* request has been handed to ctx.dispatch, or to a return that precedes
\* every call of graphql().
Start(i) ==
    /\ Idle
    /\ \E tool \in Callers : \E args \in ToolArgs(tool) :
         LET step == ToolRequest(tool, args)
         IN  /\ invocation' = [invocation EXCEPT ![i] = [tool |-> tool, args |-> args]]
             /\ IF step.early
                THEN /\ pc' = [pc EXCEPT ![i] = "done"]
                     /\ outcome' = [outcome EXCEPT ![i] = Returns(step.text)]
                     /\ UNCHANGED <<httpRequest, asked, sent>>
                ELSE /\ pc' = [pc EXCEPT ![i] = "awaiting"]
                     /\ httpRequest' = [httpRequest EXCEPT ![i] = step.req]
                     /\ asked' = [asked EXCEPT ![i] = asked[i] + 1]
                     /\ sent' = [sent EXCEPT ![i] = sent[i] + 1]
                     /\ UNCHANGED outcome
    /\ UNCHANGED <<httpReply, linearResult, globals>>

\* A variant of the resumption in which graphql() sends the request once
\* more when the reply is a failure or carries errors.
ResumeWithRetry(i) ==
    /\ pc[i] = "awaiting"
    /\ \E reply \in Replies(invocation[i].tool, invocation[i].args) :
         /\ httpReply' = [httpReply EXCEPT ![i] = reply]
         /\ IF ~graphqlResult(reply).success /\ sent[i] < 2
            THEN /\ sent' = [sent EXCEPT ![i] = sent[i] + 1]
                 /\ UNCHANGED <<pc, linearResult, outcome, asked>>
            ELSE /\ linearResult' = [linearResult EXCEPT ![i] = graphqlResult(reply)]
                 /\ outcome' = [outcome EXCEPT ![i] =
                        ToolResult(invocation[i].tool, invocation[i].args,
                                   graphqlResult(reply))]
                 /\ pc' = [pc EXCEPT ![i] = "done"]
                 /\ UNCHANGED <<sent, asked>>
    /\ UNCHANGED <<invocation, httpRequest, globals>>

\* hasNextPage of the pageInfo found anywhere under the data of a result.
RECURSIVE HasNextPage(_)
HasNextPage(x) ==
    /\ IsDict(x)
    /\ \/ /\ IsDict(Get(x, "pageInfo", JNull))
          /\ Get(Get(x, "pageInfo", JNull), "hasNextPage", JNull) = JBool(TRUE)
       \/ \E n \in 1..Len(x.v) : HasNextPage(x.v[n].val)

\* A variant of the resumption in which a tool calls graphql() again for
\* the next page when the reply reports one.
ResumeWithNextPage(i) ==
    /\ pc[i] = "awaiting"
    /\ \E reply \in Replies(invocation[i].tool, invocation[i].args) :
         /\ httpReply' = [httpReply EXCEPT ![i] = reply]
         /\ linearResult' = [linearResult EXCEPT ![i] = graphqlResult(reply)]
         /\ IF /\ graphqlResult(reply).success
               /\ HasNextPage(graphqlResult(reply).data)
               /\ asked[i] < 2
            THEN /\ asked' = [asked EXCEPT ![i] = asked[i] + 1]
                 /\ sent' = [sent EXCEPT ![i] = sent[i] + 1]
                 /\ UNCHANGED <<pc, outcome>>
            ELSE /\ outcome' = [outcome EXCEPT ![i] =
                        ToolResult(invocation[i].tool, invocation[i].args,
                                   graphqlResult(reply))]
                 /\ pc' = [pc EXCEPT ![i] = "done"]
                 /\ UNCHANGED <<sent, asked>>
    /\ UNCHANGED <<invocation, httpRequest, globals>>

\* The transport replies; graphql() classifies the reply and returns its
\* LinearResult to the caller, which runs on to its return or to the
\* exception that leaves it.
Resume(i) ==
    /\ pc[i] = "awaiting"
    /\ \E reply \in Replies(invocation[i].tool, invocation[i].args) :
         /\ httpReply' = [httpReply EXCEPT ![i] = reply]
         /\ linearResult' = [linearResult EXCEPT ![i] = graphqlResult(reply)]
         /\ outcome' = [outcome EXCEPT ![i] =
                ToolResult(invocation[i].tool, invocation[i].args, graphqlResult(reply))]
    /\ pc' = [pc EXCEPT ![i] = "done"]
    /\ UNCHANGED <<invocation, httpRequest, asked, sent, globals>>

\* A coercion helper is applied to a decoded value.
Coerce(i) ==
    /\ Idle
    /\ \E helper \in Helpers : \E args \in HelperArgs(helper) :
         /\ invocation' = [invocation EXCEPT ![i] = [tool |-> helper, args |-> args]]
         /\ outcome' = [outcome EXCEPT ![i] = Coerced(helper, args)]
    /\ pc' = [pc EXCEPT ![i] = "done"]
    /\ UNCHANGED <<httpRequest, asked, sent, httpReply, linearResult, globals>>

\* The caller has the value (or the exception); the coroutine is gone and
\* nothing of the call remains.
Finish(i) ==
    /\ pc[i] = "done"
    /\ pc' = [pc EXCEPT ![i] = "idle"]
    /\ invocation' = [invocation EXCEPT ![i] = None]
    /\ httpRequest' = [httpRequest EXCEPT ![i] = None]
    /\ asked' = [asked EXCEPT ![i] = 0]
    /\ sent' = [sent EXCEPT ![i] = 0]
    /\ httpReply' = [httpReply EXCEPT ![i] = None]
    /\ linearResult' = [linearResult EXCEPT ![i] = None]
    /\ outcome' = [outcome EXCEPT ![i] = None]
    /\ UNCHANGED globals

Next ==
    \/ \E i \in Slots : Start(i)
    \/ \E i \in Slots : Resume(i)
    \/ \E i \in Slots : Coerce(i)
    \/ \E i \in Slots : Finish(i)

Spec == Init /\ [][Next]_vars

-----------------------------------------------------------------------------
(* Concurrent service: the event loop runs several tool coroutines at once, *)
(* each suspended at its single await; a coroutine's steps between entry,   *)
(* await and return are atomic.                                             *)

\* The calls made concurrently: a fetch, a parameterless fetch, a list and
\* an update with and without a field to change.
ConcurrentCalls ==
    {[tool |-> "linear_get_issue", args |-> a] : a \in ToolArgs("linear_get_issue")}
    \cup {[tool |-> "linear_whoami", args |-> a] : a \in ToolArgs("linear_whoami")}
    \cup {[tool |-> "linear_list_teams", args |-> a] :
            a \in {b \in ToolArgs("linear_list_teams") : b.after = JNull}}
    \cup {[tool |-> "linear_update_issue", args |-> a] :
            a \in {b \in ToolArgs("linear_update_issue") :
                    /\ b.title \in {JNull, JStr("T")}
                    /\ \A f \in DOMAIN b : f \in {"issue_id", "title"} \/ b[f] = JNull}}

\* The replies given to a concurrent call: transport failures, a body that
\* is not a mapping, an errors body, and the well-formed or empty data.
ConcurrentReplies(tool, args) ==
    {DispatchResponse(FALSE, JNull, e) :
        e \in {JNull, HttpError(JStr("connection timed out"))}}
    \cup {DispatchResponse(TRUE, HttpResponse(b), JNull) :
            b \in {JStr("Bad Gateway"),
                   JObject(<<Entry("data", GoodData(tool, args))>>),
                   JObject(<<Entry("data", JObject(<<>>))>>),
                   JObject(<<Entry("errors", JArray(<<
                       JObject(<<Entry("message", JStr("Entity not found"))>>)>>))>>)}}

\* A call starts while other calls may be suspended.
StartConcurrent(i) ==
    /\ pc[i] = "idle"
    /\ \E call \in ConcurrentCalls :
         LET step == ToolRequest(call.tool, call.args)
         IN  /\ invocation' = [invocation EXCEPT ![i] = call]
             /\ IF step.early
                THEN /\ pc' = [pc EXCEPT ![i] = "done"]
                     /\ outcome' = [outcome EXCEPT ![i] = Returns(step.text)]
                     /\ UNCHANGED <<httpRequest, asked, sent>>
                ELSE /\ pc' = [pc EXCEPT ![i] = "awaiting"]
                     /\ httpRequest' = [httpRequest EXCEPT ![i] = step.req]
                     /\ asked' = [asked EXCEPT ![i] = asked[i] + 1]
                     /\ sent' = [sent EXCEPT ![i] = sent[i] + 1]
                     /\ UNCHANGED outcome
    /\ UNCHANGED <<httpReply, linearResult, globals>>

\* A variant of the resumption in which graphql() keeps its latest result in
\* a value shared by the calls, and a call resumed while another call's
\* result is still held returns that one.
ResumeShared(i) ==
    /\ pc[i] = "awaiting"
    /\ \E reply \in ConcurrentReplies(invocation[i].tool, invocation[i].args) :
         LET held == {j \in Slots : pc[j] = "done" /\ asked[j] > 0}
             result == IF held = {} THEN graphqlResult(reply)
                       ELSE linearResult[CHOOSE j \in held : TRUE]
         IN  /\ httpReply' = [httpReply EXCEPT ![i] = reply]
             /\ linearResult' = [linearResult EXCEPT ![i] = result]
             /\ outcome' = [outcome EXCEPT ![i] =
                    ToolResult(invocation[i].tool, invocation[i].args, result)]
    /\ pc' = [pc EXCEPT ![i] = "done"]
    /\ UNCHANGED <<invocation, httpRequest, asked, sent, globals>>

\* The transport replies to one of the suspended calls, which runs on to its
\* return.
ResumeConcurrent(i) ==
    /\ pc[i] = "awaiting"
    /\ \E reply \in ConcurrentReplies(invocation[i].tool, invocation[i].args) :
         /\ httpReply' = [httpReply EXCEPT ![i] = reply]
         /\ linearResult' = [linearResult EXCEPT ![i] = graphqlResult(reply)]
         /\ outcome' = [outcome EXCEPT ![i] =
                ToolResult(invocation[i].tool, invocation[i].args, graphqlResult(reply))]
    /\ pc' = [pc EXCEPT ![i] = "done"]
    /\ UNCHANGED <<invocation, httpRequest, asked, sent, globals>>

NextConcurrent ==
    \/ \E i \in Slots : StartConcurrent(i)
    \/ \E i \in Slots : ResumeConcurrent(i)
    \/ \E i \in Slots : Finish(i)

SpecConcurrent == Init /\ [][NextConcurrent]_vars

-----------------------------------------------------------------------------
(* Properties of graphql(), of the tools' use of it, and of the coercion    *)
(* helpers.                                                                 *)

\* graphql() has returned to the caller in slot i.
Answered(i) == pc[i] = "done" /\ asked[i] > 0

\* The reply is a transport failure: no success, or no response object.
TransportFailed(reply) == ~reply.success \/ reply.response = None

\* The reply succeeded and carries a response; its decoded body.
Carried(i) == Answered(i) /\ ~TransportFailed(httpReply[i])

BodyOf(i) == httpReply[i].response.body

\* The reply's body is a mapping with a non-empty `errors` list.
CarriesErrors(i) ==
    /\ Carried(i)
    /\ IsDict(BodyOf(i))
    /\ IsList(Get(BodyOf(i), "errors", JNull))
    /\ Len(Get(BodyOf(i), "errors", JNull).v) > 0

FirstError(i) == Get(BodyOf(i), "errors", JNull).v[1]

\* C1: when the transport reply has success=false, or success=true but no
\* response object, graphql() returns success=False, data=None and the
\* reply's error message, or "Request failed" when the reply has no error
\* object; a body the failed reply carries does not change the result.
C1_TransportFailure ==
    \A i \in Slots :
        Answered(i) /\ TransportFailed(httpReply[i]) =>
            /\ linearResult[i] =
                 LinearResult(FALSE, JNull,
                              IF httpReply[i].error # None
                              THEN httpReply[i].error.message
                              ELSE JStr("Request failed"))
            /\ ~httpReply[i].success =>
                 \A b \in Bodies(invocation[i].tool, invocation[i].args) :
                    graphqlResult(DispatchResponse(FALSE, HttpResponse(b),
                                                   httpReply[i].error))
                        = linearResult[i]

\* A failed reply that carries a body with data and no error object has
\* been answered with "Request failed".
C1_Witness ==
    \E i \in Slots :
        /\ Answered(i)
        /\ ~httpReply[i].success
        /\ httpReply[i].response # None
        /\ IsDict(BodyOf(i)) /\ HasKey(BodyOf(i), "data")
        /\ httpReply[i].error = None
        /\ linearResult[i] = LinearResult(FALSE, JNull, JStr("Request failed"))

\* C2: when the body is a mapping with a non-empty `errors` list whose first
\* element is a mapping with a `message`, graphql() returns success=False,
\* data=None and the text of that first message, also when the body carries
\* data; the later entries of `errors` and the data do not change the result.
C2_FirstErrorMessage ==
    \A i \in Slots :
        CarriesErrors(i) /\ IsDict(FirstError(i)) /\ HasKey(FirstError(i), "message") =>
            /\ linearResult[i] =
                 LinearResult(FALSE, JNull,
                              JStr(PyStr(Get(FirstError(i), "message", JNull))))
            /\ linearResult[i] =
                 graphqlResult(DispatchResponse(TRUE,
                     HttpResponse(JObject(<<Entry("errors", JArray(<<FirstError(i)>>))>>)),
                     JNull))

\* A body with data and two errors has been answered with the first message.
C2_Witness ==
    \E i \in Slots :
        /\ CarriesErrors(i)
        /\ Len(Get(BodyOf(i), "errors", JNull).v) >= 2
        /\ Get(BodyOf(i), "data", JNull) # JNull
        /\ FirstError(i) = JObject(<<Entry("message", JStr("Entity not found"))>>)
        /\ linearResult[i] = LinearResult(FALSE, JNull, JStr("Entity not found"))

\* C3: when the first element of a non-empty `errors` list is not a mapping,
\* or is a mapping without a `message` key, graphql() returns success=False
\* with the error "GraphQL error".
C3_ErrorFallback ==
    \A i \in Slots :
        CarriesErrors(i) /\ (~IsDict(FirstError(i)) \/ ~HasKey(FirstError(i), "message")) =>
            linearResult[i] = LinearResult(FALSE, JNull, JStr("GraphQL error"))

\* A first error that is a text, or a mapping without a message, has been
\* answered with the fallback.
C3_Witness ==
    \E i \in Slots :
        /\ CarriesErrors(i)
        /\ \/ IsText(FirstError(i))
           \/ IsDict(FirstError(i)) /\ HasKey(FirstError(i), "code")
        /\ linearResult[i].error = JStr("GraphQL error")

\* C4: every result of graphql() with success=False carries an error that is
\* a text and is not empty.
C4_FailureHasError ==
    \A i \in Slots :
        Answered(i) /\ ~linearResult[i].success =>
            IsText(linearResult[i].error) /\ linearResult[i].error.v # ""

\* C5: when the body is a mapping without an `errors` key, graphql() returns
\* success=True, error=None and the body's `data` (None when it has none);
\* nothing else of the body is in the result.
C5_DataOfBody ==
    \A i \in Slots :
        Carried(i) /\ IsDict(BodyOf(i)) /\ ~HasKey(BodyOf(i), "errors") =>
            linearResult[i] = LinearResult(TRUE, Get(BodyOf(i), "data", JNull), JNull)

\* A body with `data` and `extensions` has been answered with the data alone.
C5_Witness ==
    \E i \in Slots :
        /\ Carried(i) /\ IsDict(BodyOf(i))
        /\ ~HasKey(BodyOf(i), "errors")
        /\ HasKey(BodyOf(i), "extensions")
        /\ IsDict(Get(BodyOf(i), "data", JNull))
        /\ linearResult[i].success
        /\ linearResult[i].data = Get(BodyOf(i), "data", JNull)

\* C6: when the body is not a mapping, graphql() returns success=True,
\* error=None and the raw body as data.
C6_RawBody ==
    \A i \in Slots :
        Carried(i) /\ ~IsDict(BodyOf(i)) =>
            linearResult[i] = LinearResult(TRUE, BodyOf(i), JNull)

\* A text body has been answered as a success whose data is the text.
C6_Witness ==
    \E i \in Slots :
        /\ Carried(i)
        /\ BodyOf(i) = JStr("Bad Gateway")
        /\ linearResult[i] = LinearResult(TRUE, JStr("Bad Gateway"), JNull)

\* C7: in every result of graphql() exactly one of data and error is
\* populated: data and no error when success=True, an error and no data
\* when success=False.
C7_ExactlyOnePopulated ==
    \A i \in Slots :
        Answered(i) =>
            IF linearResult[i].success
            THEN linearResult[i].data # JNull /\ linearResult[i].error = JNull
            ELSE linearResult[i].error # JNull /\ linearResult[i].data = JNull

\* C8: every call of graphql() sends exactly one request, a POST to
\* /graphql, before it returns: no reply is followed by a second send and
\* no call returns without having sent.
C8_OneSendPerCall ==
    \A i \in Slots :
        /\ sent[i] = asked[i]
        /\ pc[i] = "awaiting" => sent[i] = 1
        /\ Answered(i) =>
             httpRequest[i].method = "POST" /\ httpRequest[i].path = "/graphql"
        /\ pc[i] = "done" /\ invocation[i].tool = "graphql" => sent[i] = 1

\* A direct call of graphql() has returned a failure after one send.
C8_Witness ==
    \E i \in Slots :
        /\ pc[i] = "done" /\ invocation[i].tool = "graphql"
        /\ ~linearResult[i].success
        /\ sent[i] = 1

\* C9: every tool invocation calls graphql() at most once: once in either
\* branch of linear_list_labels, once in linear_issue_context, and not
\* again when the reply's pageInfo reports a next page.
C9_AtMostOneCall ==
    \A i \in Slots :
        /\ asked[i] <= 1
        /\ pc[i] = "done" /\ invocation[i].tool \in {"linear_list_labels", "linear_issue_context"} =>
             asked[i] = 1
        /\ Answered(i) /\ linearResult[i].success /\ HasNextPage(linearResult[i].data) =>
             asked[i] = 1

\* linear_list_labels has returned its labels after one call, from a reply
\* that reports a next page.
C9_Witness ==
    \E i \in Slots :
        /\ pc[i] = "done" /\ invocation[i].tool = "linear_list_labels"
        /\ linearResult[i].success /\ HasNextPage(linearResult[i].data)
        /\ outcome[i].exc = "none" /\ IsList(outcome[i].val)
        /\ asked[i] = 1

\* The helper's declared return type holds of x.
HelperType(helper, x) ==
    CASE helper = "_str"        -> IsText(x)
      [] helper = "_int"        -> x.k \in {"int", "bigint"}
      [] helper = "_float"      -> x.k = "real"
      [] helper = "_opt_str"    -> IsText(x) \/ x = JNull
      [] helper = "_bool"       -> x.k = "bool"
      [] helper = "_nested_str" -> IsText(x) \/ x = JNull

\* C10: each coercion helper returns a value of its declared type without
\* raising, for every decoded JSON input; given null it returns the
\* supplied default (None for _opt_str).
C10_CoercionTotal ==
    \A i \in Slots :
        pc[i] = "done" /\ invocation[i].tool \in Helpers =>
            /\ outcome[i].exc = "none"
            /\ HelperType(invocation[i].tool, outcome[i].val)
            /\ invocation[i].args.val = JNull =>
                 outcome[i].val = invocation[i].args.default

\* The integer the truncating conversion gives for a value that denotes a
\* finite number (an integer, a finite real, or a text denoting one), and
\* the default for null, non-numeric text, booleans, lists and mappings.
TruncatedOrDefault(val, default) ==
    CASE val.k \in {"int", "bigint"} -> val
      [] val.k = "real" -> PyInt(val).val
      [] val.k = "str" /\ ParseFloat(val.v).ok -> PyInt(ParseFloat(val.v).x).val
      [] OTHER -> default

\* The value denotes an infinity or not-a-number, as a real or as a text.
NotFinite(val) ==
    \/ val.k = "real" /\ val.v.c # "fin"
    \/ val.k = "str" /\ ParseFloat(val.v).ok /\ ParseFloat(val.v).x.v.c # "fin"

\* C11: _int(value, default) returns default when value is null, non-numeric
\* text, a boolean, a list or a mapping, and otherwise the numeric value
\* truncated toward zero, for a real as for a text denoting one.
C11_IntTruncates ==
    \A i \in Slots :
        /\ pc[i] = "done" /\ invocation[i].tool = "_int"
        /\ ~NotFinite(invocation[i].args.val)
        => outcome[i] = Returns(TruncatedOrDefault(invocation[i].args.val,
                                                   invocation[i].args.default))

\* The value found in x under the keys of path, None where a step is not a
\* mapping or lacks the key.
RECURSIVE Reach(_, _)
Reach(x, path) ==
    IF path = <<>> THEN x
    ELSE IF IsDict(x) THEN Reach(Get(x, Head(path), JNull), Tail(path))
    ELSE JNull

\* The shape of the payload the tool in slot i reads, and the payload found
\* in the data of the result graphql() gave it.
ShapeOf(i) == Shape(invocation[i].tool, invocation[i].args)

PayloadOf(i) == Reach(linearResult[i].data, ShapeOf(i).path)

\* The mapping nodes the tool in slot i hands to its node parser, in order:
\* the entity of a fetch, the entity of a mutation that reports success, the
\* mapping entries of a node list.
ParserInputs(i) ==
    LET sh == ShapeOf(i)
        at == PayloadOf(i)
    IN  IF ~(Answered(i) /\ invocation[i].tool \in linear_tools /\ linearResult[i].success)
        THEN <<>>
        ELSE CASE sh.form = "entity" -> IF IsDict(at) THEN <<at>> ELSE <<>>
               [] sh.form = "mutation" ->
                    IF /\ IsDict(at)
                       /\ Truthy(Get(at, "success", JNull))
                       /\ IsDict(Get(at, sh.leaf, JNull))
                    THEN <<Get(at, sh.leaf, JNull)>> ELSE <<>>
               [] sh.form = "list" ->
                    IF IsDict(at) THEN DictNodes(Get(at, "nodes", JArray(<<>>)))
                    ELSE <<>>
               [] OTHER -> <<>>

\* The record type of each entity.
RecordType(kind) ==
    CASE kind = "issue" -> "IssueInfo"
      [] kind = "comment" -> "CommentInfo"
      [] kind = "state" -> "WorkflowStateInfo"
      [] kind = "team" -> "TeamInfo"
      [] kind = "user" -> "UserInfo"
      [] kind = "label" -> "LabelInfo"
      [] kind = "project" -> "ProjectInfo"
      [] kind = "cycle" -> "CycleInfo"
      [] kind = "attachment" -> "AttachmentInfo"

\* C12: every node parser, given any mapping, returns a record of its entity
\* type: wherever a tool hands mapping nodes to its parser, no exception
\* leaves the parser and the tool's value is that record, or one such
\* record per node.
C12_ParsersTotal ==
    \A i \in Slots :
        ParserInputs(i) # <<>> =>
            /\ outcome[i].exc = "none"
            /\ IF ShapeOf(i).form = "list"
               THEN /\ IsList(outcome[i].val)
                    /\ Len(outcome[i].val.v) = Len(ParserInputs(i))
                    /\ \A n \in 1..Len(outcome[i].val.v) :
                          outcome[i].val.v[n].k = RecordType(ShapeOf(i).kind)
               ELSE outcome[i].val.k = RecordType(ShapeOf(i).kind)

\* The all-default record of each entity: "" for a text field, None for an
\* optional text field, 0 for an integer field, 0.0 for a real field, the
\* empty sequence for labels.
DefaultRecord(kind) ==
    CASE kind = "issue" ->
            [k |-> "IssueInfo",
             v |-> [id |-> JStr(""), identifier |-> JStr(""), title |-> JStr(""),
                    description |-> JNull, state |-> JNull, priority |-> JInt(0),
                    assignee |-> JNull, labels |-> JArray(<<>>),
                    created_at |-> JNull, updated_at |-> JNull]]
      [] kind = "comment" ->
            [k |-> "CommentInfo",
             v |-> [id |-> JStr(""), body |-> JStr(""), user |-> JNull,
                    created_at |-> JNull]]
      [] kind = "state" ->
            [k |-> "WorkflowStateInfo",
             v |-> [id |-> JStr(""), name |-> JStr(""), type |-> JStr(""),
                    color |-> JNull, position |-> JFloat(1, 0, 0)]]
      [] kind = "team" ->
            [k |-> "TeamInfo",
             v |-> [id |-> JStr(""), name |-> JStr(""), key |-> JStr("")]]
      [] kind = "user" ->
            [k |-> "UserInfo",
             v |-> [id |-> JStr(""), name |-> JStr(""), email |-> JNull]]
      [] kind = "label" ->
            [k |-> "LabelInfo",
             v |-> [id |-> JStr(""), name |-> JStr(""), color |-> JNull]]
      [] kind = "project" ->
            [k |-> "ProjectInfo",
             v |-> [id |-> JStr(""), name |-> JStr(""), state |-> JNull,
                    progress |-> JFloat(1, 0, 0), target_date |-> JNull]]
      [] kind = "cycle" ->
            [k |-> "CycleInfo",
             v |-> [id |-> JStr(""), number |-> JInt(0), name |-> JNull,
                    starts_at |-> JNull, ends_at |-> JNull,
                    progress |-> JFloat(1, 0, 0)]]
      [] kind = "attachment" ->
            [k |-> "AttachmentInfo",
             v |-> [id |-> JStr(""), url |-> JStr(""), title |-> JNull,
                    subtitle |-> JNull]]

\* Every node the tool in slot i hands to its parser is the empty mapping.
ParsesEmptyNodes(i) ==
    /\ ParserInputs(i) # <<>>
    /\ \A n \in 1..Len(ParserInputs(i)) : ParserInputs(i)[n] = JObject(<<>>)

\* linear_issue_context in slot i has got a reply whose issue branch is a
\* mapping.
InContext(i) ==
    /\ Answered(i)
    /\ invocation[i].tool = "linear_issue_context"
    /\ linearResult[i].success
    /\ IsDict(linearResult[i].data)
    /\ IsDict(PayloadOf(i))

\* The nodes entry of a branch of the issue context, [] when the branch is
\* not a mapping or has no nodes.
BranchNodes(branch) ==
    IF IsDict(branch) THEN Get(branch, "nodes", JArray(<<>>)) ELSE JArray(<<>>)

CommentNodesOf(i) == BranchNodes(Get(PayloadOf(i), "comments", JObject(<<>>)))

StateNodesOf(i) ==
    LET team == Get(PayloadOf(i), "team", JObject(<<>>))
    IN  BranchNodes(IF IsDict(team) THEN Get(team, "states", JObject(<<>>))
                    ELSE JObject(<<>>))

\* C13: parsing the empty mapping with any node parser yields the
\* all-default record of the entity: a tool that hands {} to its parser
\* returns that record, a list tool one such record per empty node, and the
\* issue context one such comment or state per empty comment or state node.
C13_EmptyNodeDefaults ==
    \A i \in Slots :
        /\ ParsesEmptyNodes(i) =>
            outcome[i] =
                Returns(IF ShapeOf(i).form = "list"
                        THEN JArray([n \in 1..Len(ParserInputs(i)) |->
                                        DefaultRecord(ShapeOf(i).kind)])
                        ELSE DefaultRecord(ShapeOf(i).kind))
        /\ InContext(i) /\ outcome[i].exc = "none" =>
            /\ \A n \in 1..Len(DictNodes(CommentNodesOf(i))) :
                    DictNodes(CommentNodesOf(i))[n] = JObject(<<>>) =>
                        outcome[i].val.v.comments.v[n] = DefaultRecord("comment")
            /\ \A n \in 1..Len(DictNodes(StateNodesOf(i))) :
                    DictNodes(StateNodesOf(i))[n] = JObject(<<>>) =>
                        outcome[i].val.v.states.v[n] = DefaultRecord("state")
            /\ PayloadOf(i) = JObject(<<>>) =>
                        outcome[i].val.v.issue = DefaultRecord("issue")

\* linear_get_issue has parsed the empty issue node into the all-default
\* IssueInfo.
C13_Witness ==
    \E i \in Slots :
        /\ ParsesEmptyNodes(i)
        /\ invocation[i].tool = "linear_get_issue"
        /\ outcome[i].exc = "none"
        /\ outcome[i].val.k = "IssueInfo"
        /\ outcome[i].val.v.priority = JInt(0)
        /\ outcome[i].val.v.labels = JArray(<<>>)
        /\ outcome[i].val.v.description = JNull

\* The non-empty name texts of the mappings among entries, in their order.
RECURSIVE NamesInOrder(_)
NamesInOrder(entries) ==
    IF entries = <<>> THEN <<>>
    ELSE LET name == IF IsDict(Head(entries))
                     THEN Get(Head(entries), "name", JNull) ELSE JNull
         IN  (IF IsText(name) /\ name.v # "" THEN <<name>> ELSE <<>>)
             \o NamesInOrder(Tail(entries))

\* The labels the issue node raw stands for.
ExpectedLabels(raw) ==
    LET labels == Get(raw, "labels", JNull)
        nodes == IF IsDict(labels) THEN Get(labels, "nodes", JNull) ELSE JNull
    IN  IF IsList(nodes) THEN JArray(NamesInOrder(nodes.v)) ELSE JArray(<<>>)

\* Every name among the label entries of raw is a text or null.
TextNamed(raw) ==
    LET labels == Get(raw, "labels", JNull)
        nodes == IF IsDict(labels) THEN Get(labels, "nodes", JNull) ELSE JNull
    IN  IsList(nodes) =>
            \A n \in 1..Len(nodes.v) :
                IsDict(nodes.v[n]) =>
                    Get(nodes.v[n], "name", JNull) = JNull
                    \/ IsText(Get(nodes.v[n], "name", JNull))

\* C14: in every issue parser the labels field is exactly the names of the
\* entries of raw["labels"]["nodes"] that are mappings with a non-empty name,
\* in response order; other entries are dropped, nothing is sorted,
\* deduplicated or added, and labels is empty when `labels` is not a mapping
\* or its `nodes` is not a list.
C14_LabelsInOrder ==
    \A i \in Slots :
        /\ ParserInputs(i) # <<>> /\ ShapeOf(i).kind = "issue"
           /\ outcome[i].exc = "none" =>
            \A n \in 1..Len(ParserInputs(i)) :
                TextNamed(ParserInputs(i)[n]) =>
                    (IF ShapeOf(i).form = "list"
                     THEN outcome[i].val.v[n] ELSE outcome[i].val).v.labels
                        = ExpectedLabels(ParserInputs(i)[n])
        /\ InContext(i) /\ outcome[i].exc = "none" /\ TextNamed(PayloadOf(i)) =>
            outcome[i].val.v.issue.v.labels = ExpectedLabels(PayloadOf(i))

\* An issue parser has flattened six label entries, two of them malformed, one
\* with an empty name and one name repeated, into b, a, b.
C14_Witness ==
    \E i \in Slots :
        /\ ParserInputs(i) # <<>> /\ ShapeOf(i).kind = "issue"
        /\ outcome[i].exc = "none"
        /\ \E n \in 1..Len(ParserInputs(i)) :
            /\ IsList(Reach(ParserInputs(i)[n], <<"labels", "nodes">>))
            /\ Len(Reach(ParserInputs(i)[n], <<"labels", "nodes">>).v) = 6
            /\ (IF ShapeOf(i).form = "list"
                THEN outcome[i].val.v[n] ELSE outcome[i].val).v.labels
                    = JArray(<<JStr("b"), JStr("a"), JStr("b")>>)

\* The comments and states of the issue context in slot i, with a nodes entry
\* that is not a list standing for no node.
CommentsOf(i) ==
    ParseNodes([ix \in 1..Len(DictNodes(CommentNodesOf(i))) |->
                   compound_parse_comment(DictNodes(CommentNodesOf(i))[ix])])

StatesOf(i) ==
    ParseNodes([ix \in 1..Len(DictNodes(StateNodesOf(i))) |->
                   compound_parse_state(DictNodes(StateNodesOf(i))[ix])])

\* C15: once the issue branch of the reply is a mapping, linear_issue_context
\* returns an IssueContextInfo for every shape of the comments and team
\* branches: a branch that is absent, null or of a wrong shape at any level
\* gives the empty sequence for that branch only, the issue and the other
\* branch are parsed in full, and the call does not fail because of a
\* malformed branch.
C15_BranchesDegrade ==
    \A i \in Slots :
        /\ InContext(i)
        /\ compound_parse_issue(PayloadOf(i)).exc = "none"
        /\ CommentsOf(i).exc = "none"
        /\ StatesOf(i).exc = "none"
        => outcome[i] =
            Returns([k |-> "IssueContextInfo",
                     v |-> [issue |-> compound_parse_issue(PayloadOf(i)).val,
                            comments |-> CommentsOf(i).val,
                            states |-> StatesOf(i).val]])

\* The mutating tool in slot i has got a reply whose mutation payload is a
\* mapping with success false.
Refused(i) ==
    /\ Answered(i)
    /\ ShapeOf(i).form = "mutation"
    /\ linearResult[i].success
    /\ IsDict(linearResult[i].data)
    /\ IsDict(PayloadOf(i))
    /\ Get(PayloadOf(i), "success", JNull) = JBool(FALSE)

\* What the tool of slot i returns for the other error classes: a failed
\* request without a message, data that is not a mapping, a payload that is
\* absent or not a mapping, and a successful payload without its entity.
OtherDiagnostics(i) ==
    {ToolResult(invocation[i].tool, invocation[i].args, r) :
        r \in {LinearResult(FALSE, None, None)}
              \cup {LinearResult(TRUE, d, None) :
                      d \in {JNull, JObject(<<>>),
                             Wrap(ShapeOf(i).path, JStr("x")),
                             Wrap(ShapeOf(i).path,
                                  JObject(<<Entry("success", JBool(TRUE))>>))}}}

\* C16: when the mutation payload of a mutating tool is a mapping whose
\* success is false, the tool returns a diagnostic text different from every
\* text it returns for the other error classes, in particular from the text
\* for a payload that is absent or not a mapping.
C16_RefusalDistinct ==
    \A i \in Slots :
        Refused(i) =>
            /\ outcome[i].exc = "none" /\ IsText(outcome[i].val)
            /\ outcome[i] \notin OtherDiagnostics(i)

\* The domain record types.
RecordTypes ==
    {"TeamInfo", "UserInfo", "WorkflowStateInfo", "LabelInfo", "IssueInfo",
     "CommentInfo", "ProjectInfo", "CycleInfo", "AttachmentInfo",
     "IssueContextInfo"}

\* C17: every tool invocation, for every parameter set and every transport
\* reply, ends by returning a domain record, a sequence of domain records or
\* an error text; no exception leaves a tool function.
C17_ErrorsAsData ==
    \A i \in Slots :
        pc[i] = "done" /\ invocation[i].tool \in linear_tools =>
            /\ outcome[i].exc = "none"
            /\ \/ IsText(outcome[i].val)
               \/ outcome[i].val.k \in RecordTypes
               \/ /\ IsList(outcome[i].val)
                  /\ \A n \in 1..Len(outcome[i].val.v) :
                        outcome[i].val.v[n].k \in RecordTypes

\* The value p occurs in the value x: as x itself, as an item of a list, a
\* value of a mapping or a field of a record, at any depth.
RECURSIVE Carries(_, _)
Carries(x, p) ==
    \/ x = p
    \/ IsList(x) /\ \E n \in 1..Len(x.v) : Carries(x.v[n], p)
    \/ IsDict(x) /\ \E n \in 1..Len(x.v) : Carries(x.v[n].val, p)
    \/ x.k \in RecordTypes /\ \E f \in DOMAIN x.v : Carries(x.v[f], p)

PagedTools ==
    {"linear_list_issues", "linear_list_comments", "linear_list_projects",
     "linear_list_cycles", "linear_list_teams", "linear_list_users",
     "linear_list_labels", "linear_search_issues", "linear_my_issues"}

\* The paginated list tool in slot i has returned the nodes of a successful
\* reply whose connection carries a pageInfo mapping.
PageReturned(i) ==
    /\ Answered(i)
    /\ invocation[i].tool \in PagedTools
    /\ linearResult[i].success
    /\ IsDict(PayloadOf(i))
    /\ IsDict(Get(PayloadOf(i), "pageInfo", JNull))
    /\ outcome[i].exc = "none" /\ IsList(outcome[i].val)

\* C18: the pageInfo (hasNextPage, endCursor) carried by a successful reply
\* to a paginated list tool is surfaced unchanged in the value the tool
\* returns, so that the caller can take the cursor of the next page from it.
C18_PageInfoSurfaced ==
    \A i \in Slots :
        PageReturned(i) =>
            Carries(outcome[i].val, Get(PayloadOf(i), "pageInfo", JNull))

IssueListTools ==
    {"linear_list_issues", "linear_search_issues", "linear_my_issues"}

\* C19: every IssueInfo in the result of a list or search tool
\* (linear_list_issues, linear_search_issues, linear_my_issues) has
\* description None, whatever the nodes of the reply contain.
C19_ListsOmitDescription ==
    \A i \in Slots :
        /\ pc[i] = "done" /\ invocation[i].tool \in IssueListTools
        /\ outcome[i].exc = "none" /\ IsList(outcome[i].val)
        => \A n \in 1..Len(outcome[i].val.v) :
                outcome[i].val.v[n].v.description = JNull

\* x <= y for two reals (false when either is nan).
FloatLeq(x, y) ==
    LET low == IF x.v.e < y.v.e THEN x.v.e ELSE y.v.e
        Scaled(z) == z.v.s * z.v.m * Pow10(z.v.e - low)
    IN  CASE x.v.c = "nan" \/ y.v.c = "nan" -> FALSE
          [] x.v.c = "inf" -> x.v.s = -1 \/ (y.v.c = "inf" /\ y.v.s = 1)
          [] y.v.c = "inf" -> y.v.s = 1
          [] OTHER -> Scaled(x) <= Scaled(y)

\* C20: the sequence of WorkflowStateInfo returned by linear_list_team_states
\* is sorted by position in non-decreasing order, for every order in which
\* the reply's state nodes arrive.
C20_StatesSorted ==
    \A i \in Slots :
        /\ pc[i] = "done" /\ invocation[i].tool = "linear_list_team_states"
        /\ outcome[i].exc = "none" /\ IsList(outcome[i].val)
        => \A n \in 1..Len(outcome[i].val.v) : \A m \in n..Len(outcome[i].val.v) :
                FloatLeq(outcome[i].val.v[n].v.position,
                         outcome[i].val.v[m].v.position)

\* What the call in slot i returns when it runs alone with the same
\* parameters and the same transport reply.
Alone(i) ==
    IF ToolRequest(invocation[i].tool, invocation[i].args).early
    THEN Returns(ToolRequest(invocation[i].tool, invocation[i].args).text)
    ELSE ToolResult(invocation[i].tool, invocation[i].args,
                    graphqlResult(httpReply[i]))

Keys(x) == [n \in 1..Len(x.v) |-> x.v[n].key]

\* C22: the request body built by graphql() holds the query text unchanged
\* under `query`, and a `variables` entry if and only if the variables
\* argument is a non-empty mapping, in which case the entry is that mapping
\* unchanged (entries with a null value included); a null or empty
\* variables argument gives a body without a `variables` key.
C22_RequestBody ==
    \A i \in Slots :
        pc[i] \in {"awaiting", "done"} /\ asked[i] > 0 =>
            LET body == httpRequest[i].body
                args == invocation[i].args
            IN  /\ IsDict(body)
                /\ Keys(body) \in {<<"query">>, <<"query", "variables">>}
                /\ IsText(Get(body, "query", JNull))
                /\ HasKey(body, "variables") =>
                        /\ IsDict(Get(body, "variables", JNull))
                        /\ Get(body, "variables", JNull).v # <<>>
                /\ invocation[i].tool = "graphql" =>
                        /\ Get(body, "query", JNull) = args.query
                        /\ HasKey(body, "variables")
                            <=> IsDict(args.variables) /\ args.variables.v # <<>>
                        /\ HasKey(body, "variables") =>
                                Get(body, "variables", JNull) = args.variables
                /\ invocation[i].tool = "linear_whoami" => ~HasKey(body, "variables")
                /\ invocation[i].tool = "linear_list_teams" =>
                        Get(body, "variables", JNull) =
                            JObject(<<Entry("first", args.first),
                                      Entry("after", args.after)>>)

\* graphql() has sent a variables mapping whose only entry is null.
C22_Witness ==
    \E i \in Slots :
        /\ pc[i] = "awaiting" /\ invocation[i].tool = "graphql"
        /\ invocation[i].args.variables = JObject(<<Entry("after", JNull)>>)
        /\ Keys(httpRequest[i].body) = <<"query", "variables">>
        /\ Get(httpRequest[i].body, "variables", JNull)
                = JObject(<<Entry("after", JNull)>>)

\* The IssueInfo records in the value a tool returned.
IssuesIn(x) ==
    CASE x.k = "IssueInfo" -> {x}
      [] x.k = "IssueContextInfo" -> {x.v.issue}
      [] x.k = "list" -> {x.v[n] : n \in {m \in 1..Len(x.v) : x.v[m].k = "IssueInfo"}}
      [] OTHER -> {}

\* C23: every IssueInfo produced by an issue parser has a priority that is an
\* integer in the range 0..4, for every value the reply carries in the
\* node's `priority` field.
C23_PriorityRange ==
    \A i \in Slots :
        pc[i] = "done" /\ invocation[i].tool \in linear_tools
        /\ outcome[i].exc = "none" =>
            \A issue \in IssuesIn(outcome[i].val) :
                /\ issue.v.priority.k = "int"
                /\ issue.v.priority.v \in 0..4

\* The display name of the relation of node under field: the text of its
\* `name` when the relation is a mapping with a non-null name, else None.
RelatedName(node, field) ==
    LET related == Get(node, field, JNull)
    IN  IF IsDict(related) /\ Get(related, "name", JNull) # JNull
        THEN JStr(PyStr(Get(related, "name", JNull)))
        ELSE None

\* The record parsed from the n-th node the tool in slot i handed to its
\* parser.
ParsedOf(i, n) ==
    IF ShapeOf(i).form = "list" THEN outcome[i].val.v[n] ELSE outcome[i].val

\* C24: _nested_str(obj, key) returns None whenever obj is not a mapping and
\* whenever obj is a mapping in which key is absent or null, and otherwise
\* the text of obj[key]; so an issue's state and assignee and a comment's
\* user are None exactly when the related node is not a mapping or has no
\* non-null name, never the empty text standing in for a missing name.
C24_NestedStr ==
    \A i \in Slots :
        /\ pc[i] = "done" /\ invocation[i].tool = "_nested_str" =>
            outcome[i] =
                Returns(IF /\ IsDict(invocation[i].args.val)
                           /\ Get(invocation[i].args.val, "name", JNull) # JNull
                        THEN JStr(PyStr(Get(invocation[i].args.val, "name", JNull)))
                        ELSE None)
        /\ ParserInputs(i) # <<>> /\ outcome[i].exc = "none" =>
            \A n \in 1..Len(ParserInputs(i)) :
                /\ ShapeOf(i).kind = "issue" =>
                    /\ ParsedOf(i, n).v.state = RelatedName(ParserInputs(i)[n], "state")
                    /\ ParsedOf(i, n).v.assignee
                            = RelatedName(ParserInputs(i)[n], "assignee")
                /\ ShapeOf(i).kind = "comment" =>
                    ParsedOf(i, n).v.user = RelatedName(ParserInputs(i)[n], "user")
        /\ InContext(i) /\ outcome[i].exc = "none" =>
            /\ outcome[i].val.v.issue.v.state = RelatedName(PayloadOf(i), "state")
            /\ outcome[i].val.v.issue.v.assignee = RelatedName(PayloadOf(i), "assignee")
            /\ \A n \in 1..Len(DictNodes(CommentNodesOf(i))) :
                    outcome[i].val.v.comments.v[n].v.user
                        = RelatedName(DictNodes(CommentNodesOf(i))[n], "user")

\* An issue whose state is a text instead of a mapping and whose assignee
\* carries a null name has been parsed with both fields None.
C24_Witness ==
    \E i \in Slots :
        /\ ParserInputs(i) # <<>> /\ ShapeOf(i).kind = "issue"
        /\ ShapeOf(i).form = "entity" /\ outcome[i].exc = "none"
        /\ Get(ParserInputs(i)[1], "state", JNull) = JStr("Done")
        /\ Get(ParserInputs(i)[1], "assignee", JNull)
                = JObject(<<Entry("name", JNull)>>)
        /\ outcome[i].val.v.state = None
        /\ outcome[i].val.v.assignee = None

MutatingTools ==
    {"linear_create_issue", "linear_update_issue", "linear_create_comment",
     "linear_create_project", "linear_update_project", "linear_create_label",
     "linear_create_attachment", "linear_update_attachment"}

\* The parameters of a mutating tool that its `input` always carries.
RequiredInputs(tool) ==
    CASE tool = "linear_create_issue" -> {"team_id", "title"}
      [] tool = "linear_create_comment" -> {"issue_id", "body"}
      [] tool = "linear_create_project" -> {"name"}
      [] tool = "linear_create_label" -> {"name"}
      [] tool = "linear_create_attachment" -> {"issue_id", "url"}
      [] OTHER -> {}

\* The parameters of a mutating tool that are passed beside `input`.
TargetParams(tool) ==
    CASE tool = "linear_update_issue" -> {"issue_id"}
      [] tool = "linear_update_project" -> {"project_id"}
      [] tool = "linear_update_attachment" -> {"attachment_id"}
      [] OTHER -> {}

\* The key of `input` that stands for a parameter.
InputKey(param) ==
    CASE param = "team_id" -> "teamId"
      [] param = "team_ids" -> "teamIds"
      [] param = "issue_id" -> "issueId"
      [] param = "assignee_id" -> "assigneeId"
      [] param = "state_id" -> "stateId"
      [] param = "label_ids" -> "labelIds"
      [] param = "cycle_id" -> "cycleId"
      [] param = "project_id" -> "projectId"
      [] param = "create_as_user" -> "createAsUser"
      [] param = "display_icon_url" -> "displayIconUrl"
      [] param = "icon_url" -> "iconUrl"
      [] param = "target_date" -> "targetDate"
      [] OTHER -> param

\* The entries `input` is to hold for the call in slot i: the required
\* inputs and every optional parameter that was given.
InputEntries(i) ==
    LET tool == invocation[i].tool
        args == invocation[i].args
    IN  {Entry(InputKey(param), args[param]) :
            param \in {q \in DOMAIN args \ TargetParams(tool) :
                        q \in RequiredInputs(tool) \/ args[q] # None}}

\* The `input` mapping of the request the call in slot i has sent.
InputOf(i) == Reach(httpRequest[i].body, <<"variables", "input">>)

\* C25: for every create and update tool, the `input` mapping sent in the
\* mutation's variables holds exactly the tool's required inputs plus one
\* key for each optional parameter whose argument is not None; a parameter
\* left as None never appears in `input`, not even with a null value.
C25_InputHoldsGiven ==
    \A i \in Slots :
        pc[i] \in {"awaiting", "done"} /\ asked[i] > 0
        /\ invocation[i].tool \in MutatingTools =>
            /\ IsDict(InputOf(i))
            /\ {InputOf(i).v[n] : n \in 1..Len(InputOf(i).v)} = InputEntries(i)
            /\ Len(InputOf(i).v) = Cardinality(InputEntries(i))
            /\ \A n \in 1..Len(InputOf(i).v) : InputOf(i).v[n].val # None

\* linear_create_issue has been sent with its two required inputs and the
\* one optional field that was given.
C25_Witness ==
    \E i \in Slots :
        /\ pc[i] = "awaiting" /\ invocation[i].tool = "linear_create_issue"
        /\ invocation[i].args.description = JStr("x")
        /\ invocation[i].args.priority = None
        /\ Keys(InputOf(i)) = <<"teamId", "title", "description">>

\* graphql() has reported success to the tool in slot i with data that is not
\* a mapping.
UnvalidatedData(i) ==
    /\ Answered(i)
    /\ invocation[i].tool \in linear_tools
    /\ linearResult[i].success
    /\ ~IsDict(linearResult[i].data)

\* C26: for every tool, when graphql() reports success but its data is not a
\* mapping (the reply body was not a mapping, or a mapping with no or null
\* data), the tool returns exactly the text "Unexpected response"; no node
\* parser runs and the unvalidated payload reaches neither a record nor the
\* caller.
C26_UnexpectedResponse ==
    \A i \in Slots :
        /\ UnvalidatedData(i) => outcome[i] = Returns(JStr("Unexpected response"))
        /\ /\ Carried(i) /\ ~CarriesErrors(i)
           /\ invocation[i].tool \in linear_tools
           /\ ~IsDict(BodyOf(i)) \/ ~IsDict(Get(BodyOf(i), "data", JNull))
           => outcome[i] = Returns(JStr("Unexpected response"))

\* A reply whose body is a mapping without `data` has been answered with
\* "Unexpected response" by a tool.
C26_Witness ==
    \E i \in Slots :
        /\ UnvalidatedData(i)
        /\ invocation[i].tool = "linear_get_issue"
        /\ IsDict(BodyOf(i)) /\ ~HasKey(BodyOf(i), "data")
        /\ linearResult[i].data = None
        /\ outcome[i].val = JStr("Unexpected response")

\* The text a tool returns for a failed request that carries no message.
Fallback(tool) ==
    CASE tool = "linear_get_issue" -> "Failed to fetch issue"
      [] tool = "linear_list_issues" -> "Failed to list issues"
      [] tool = "linear_create_issue" -> "Failed to create issue"
      [] tool = "linear_update_issue" -> "Failed to update issue"
      [] tool = "linear_list_comments" -> "Failed to list comments"
      [] tool = "linear_create_comment" -> "Failed to create comment"
      [] tool = "linear_get_project" -> "Failed to fetch project"
      [] tool = "linear_list_projects" -> "Failed to list projects"
      [] tool = "linear_create_project" -> "Failed to create project"
      [] tool = "linear_update_project" -> "Failed to update project"
      [] tool = "linear_list_cycles" -> "Failed to list cycles"
      [] tool = "linear_get_cycle" -> "Failed to fetch cycle"
      [] tool = "linear_active_cycle" -> "Failed to fetch active cycle"
      [] tool = "linear_list_teams" -> "Failed to list teams"
      [] tool = "linear_get_team" -> "Failed to fetch team"
      [] tool = "linear_list_team_states" -> "Failed to fetch team states"
      [] tool = "linear_whoami" -> "Failed to fetch viewer"
      [] tool = "linear_list_users" -> "Failed to list users"
      [] tool = "linear_list_labels" -> "Failed to list labels"
      [] tool = "linear_create_label" -> "Failed to create label"
      [] tool = "linear_search_issues" -> "Failed to search issues"
      [] tool = "linear_get_attachment" -> "Failed to fetch attachment"
      [] tool = "linear_get_attachment_by_url" -> "Failed to fetch attachments"
      [] tool = "linear_create_attachment" -> "Failed to create attachment"
      [] tool = "linear_update_attachment" -> "Failed to update attachment"
      [] tool = "linear_issue_context" -> "Failed to fetch issue context"
      [] tool = "linear_my_issues" -> "Failed to fetch assigned issues"

\* graphql() has returned success=False to the tool in slot i.
Failed(i) ==
    /\ Answered(i)
    /\ invocation[i].tool \in linear_tools
    /\ ~linearResult[i].success

\* C27: for every tool, when graphql() returns success=False the tool returns
\* a non-empty text and no record: the dispatch error text verbatim when it
\* is non-empty, the tool's own fixed fallback text when the error is null
\* or empty; the reply's data is not parsed.
C27_FailureText ==
    \A i \in Slots :
        /\ Failed(i) =>
            /\ outcome[i].exc = "none"
            /\ IsText(outcome[i].val) /\ outcome[i].val.v # ""
            /\ outcome[i].val =
                IF IsText(linearResult[i].error) /\ linearResult[i].error.v # ""
                THEN linearResult[i].error
                ELSE JStr(Fallback(invocation[i].tool))
        /\ Answered(i) /\ invocation[i].tool \in linear_tools =>
            LET tool == invocation[i].tool
                args == invocation[i].args
            IN  /\ ToolResult(tool, args, LinearResult(FALSE, GoodData(tool, args), None))
                        = Returns(JStr(Fallback(tool)))
                /\ ToolResult(tool, args,
                              LinearResult(FALSE, GoodData(tool, args), JStr("boom")))
                        = Returns(JStr("boom"))

\* A tool has answered a failure whose error text is empty with its own
\* fallback text.
C27_Witness ==
    \E i \in Slots :
        /\ Failed(i)
        /\ linearResult[i].error = JStr("")
        /\ invocation[i].tool = "linear_issue_context"
        /\ outcome[i].val = JStr("Failed to fetch issue context")

UpdateTools ==
    {"linear_update_issue", "linear_update_project", "linear_update_attachment"}

\* The call in slot i gives no field to change: every parameter beside the
\* target id is None.
NothingGiven(i) ==
    \A param \in DOMAIN invocation[i].args \ TargetParams(invocation[i].tool) :
        invocation[i].args[param] = None

\* C28: no update tool (linear_update_issue, linear_update_project,
\* linear_update_attachment) ever dispatches a mutation whose `input`
\* mapping is empty: when every optional field argument is None the tool
\* returns the text "No fields to update" and performs no dispatch.
C28_NoEmptyUpdate ==
    \A i \in Slots :
        pc[i] # "idle" /\ invocation[i].tool \in UpdateTools =>
            /\ asked[i] > 0 => IsDict(InputOf(i)) /\ InputOf(i).v # <<>>
            /\ NothingGiven(i) =>
                /\ pc[i] = "done"
                /\ asked[i] = 0 /\ sent[i] = 0
                /\ outcome[i] = Returns(JStr("No fields to update"))

\* The reply's body is a mapping with an `errors` key whose value is not a
\* non-empty list.
OddErrors(i) ==
    /\ Carried(i)
    /\ IsDict(BodyOf(i))
    /\ HasKey(BodyOf(i), "errors")
    /\ ~CarriesErrors(i)

\* C29: when the transport reply succeeds with a mapping body whose `errors`
\* key holds anything but a non-empty list (null, an empty list, a text, a
\* number, a mapping such as a single error object), graphql() classifies
\* the reply as success: success=True, data equal to the body's `data`
\* field, error=None; the content of `errors` is discarded.
C29_OddErrorsSucceed ==
    \A i \in Slots :
        OddErrors(i) =>
            linearResult[i] = LinearResult(TRUE, Get(BodyOf(i), "data", JNull), None)

\* A body whose `errors` is a single error object beside well-formed data
\* has been answered as a success carrying the data.
C29_Witness ==
    \E i \in Slots :
        /\ OddErrors(i)
        /\ IsDict(Get(BodyOf(i), "errors", JNull))
        /\ IsDict(Get(BodyOf(i), "data", JNull))
        /\ linearResult[i].success
        /\ linearResult[i].data = Get(BodyOf(i), "data", JNull)
        /\ linearResult[i].error = None

\* The list tool in slot i has reached its node-list step: the reply was a
\* success with mapping data and the connection the tool reads is a mapping.
AtNodeList(i) ==
    /\ Answered(i)
    /\ invocation[i].tool \in linear_tools
    /\ ShapeOf(i).form = "list"
    /\ linearResult[i].success
    /\ IsDict(linearResult[i].data)
    /\ IsDict(PayloadOf(i))

\* The value of the connection's `nodes` key in slot i (null when absent).
NodesOf(i) == Get(PayloadOf(i), "nodes", JNull)

\* C30: for every list tool whose reply reaches the node-list step: when the
\* connection has no `nodes` key the tool returns the empty sequence; when
\* `nodes` is present but not a list (null included) it returns exactly
\* "Unexpected nodes format"; otherwise it returns one record per
\* mapping-shaped entry of `nodes`, in response order, the other entries
\* dropped, so the result is as long as the mapping-shaped entries are many
\* and never longer than `nodes`.
C30_NodeList ==
    \A i \in Slots :
        AtNodeList(i) =>
            IF ~HasKey(PayloadOf(i), "nodes")
            THEN outcome[i] = Returns(JArray(<<>>))
            ELSE IF ~IsList(NodesOf(i))
            THEN outcome[i] = Returns(JStr("Unexpected nodes format"))
            ELSE /\ outcome[i].exc = "none"
                 /\ IsList(outcome[i].val)
                 /\ Len(outcome[i].val.v) = Len(DictNodes(NodesOf(i)))
                 /\ Len(outcome[i].val.v) <= Len(NodesOf(i).v)
                 /\ \A n \in 1..Len(outcome[i].val.v) :
                        /\ outcome[i].val.v[n].k = RecordType(ShapeOf(i).kind)
                        /\ outcome[i].val.v[n].v.id =
                              _str(Get(DictNodes(NodesOf(i))[n], "id", JNull), JStr("")).val

=============================================================================
